---------------------------- MODULE Spec2Model ----------------------------
(***************************************************************************)
(* A model of the cryptolab cipher catalogue (src/cryptolab/ciphers) and   *)
(* of the encrypt/decrypt views that dispatch to it (src/cryptolab/views). *)
(*                                                                         *)
(* Text is modelled as a sequence of code points, so ord(c) is c itself    *)
(* and chr(n) is n.  The model is restricted to ASCII text.  A Python      *)
(* value that reaches a cipher as a key or a text is a record with its     *)
(* type t, its characters s (a str) and its number n (an int).  The result *)
(* of a call is a record: kind "return" with the value val, or kind        *)
(* "raise" with the exception class exc.                                   *)
(***************************************************************************)
EXTENDS Integers, Sequences, FiniteSets, TLC

VARIABLES
    cipher,   \* the cipher class under call, by its name
    key,      \* the key argument, a Python value
    text,     \* the text argument, a Python value
    pc,       \* position of the caller
    vk,       \* outcome of validate_key(key)
    ct,       \* outcome of encrypt(text, key)
    pt,       \* outcome of decrypt(., key)
    inv,      \* outcome of each class's _mod_inverse(key)
    made_from,\* the numbers a generated key string was written from
    request,  \* the HTTP request a view is serving
    response, \* the HTTP response the view returned
    calls,    \* the calls the view has made so far, in order
    registry, \* the module's CIPHER_REGISTRY dict
    found,    \* the last get_cipher call: its argument and its outcome
    listing,  \* outcome of the last get_all_ciphers()
    key_cache,\* RSACipher._key_cache: password to key pair
    rng,      \* the state of the process-global random generator
    threads,  \* the RSA calls in progress, one for each thread
    loop      \* the local variables of the loop a call is in

vars ==
    <<cipher, key, text, pc, vk, ct, pt, inv, made_from, request, response, calls,
      registry, found, listing, key_cache, rng, threads, loop>>

---------------------------------------------------------------------------
(* Bounds of the model *)

\* longest generated text and key (characters)
MaxLen == 3
MaxKeyLen == 2
\* Hill: largest magnitude of a generated matrix entry, longest text
MaxHillEntry == 2
MaxHillLen == 2
\* _mod_inverse: largest magnitude of the argument
MaxA == 60
\* Affine and Multiplicative: largest magnitude of a generated multiplier
MaxMultiplier == 7
MaxRailLen == 12
MaxColumns == 3
MaxSpelled == 4
MaxThreads == 2

---------------------------------------------------------------------------
(* Python values and call outcomes *)

StrV(s) == [t |-> "str", s |-> s, n |-> 0]
IntV(i) == [t |-> "int", s |-> <<>>, n |-> i]
NoneV == [t |-> "NoneType", s |-> <<>>, n |-> 0]
ListV == [t |-> "list", s |-> <<>>, n |-> 0]

Ret(v) == [kind |-> "return", val |-> v, exc |-> "none"]
Raise(e) == [kind |-> "raise", val |-> <<>>, exc |-> e]
NotCalled == [kind |-> "none", val |-> <<>>, exc |-> "none"]

\* a key that a JSON object does not have
Absent == [t |-> "absent", s |-> <<>>, n |-> 0]

\* no request being served, no response returned
NoRequest ==
    [view |-> "none", method |-> "none",
     body |-> [json |-> "none", cipher |-> Absent, plaintext |-> Absent,
               ciphertext |-> Absent, key |-> Absent]]

\* no call is inside a loop
NoLoop == [at |-> "none"]

NoResponse ==
    [status |-> 0, content_type |-> "none", field |-> "none", result |-> <<>>,
     error |-> ""]

\* ord('A'), ord('a'), and the alphabet size used by every classical cipher
OrdA == 65
Orda == 97
M == 26

\* str.isupper(), str.islower(), str.isalpha() of one character: the ASCII
\* letters and the Latin-1 letters 'À'..'Þ' and 'à'..'þ', whose two cases are
\* 32 apart as well
IsUpper(c) == c \in (65..90) \cup ((192..222) \ {215})
IsLower(c) == c \in (97..122) \cup ((224..254) \ {247})
IsAlpha(c) == IsUpper(c) \/ IsLower(c)
IsDigit(c) == c \in 48..57
IsSpace(c) == c \in {32, 9, 10, 13}
Upper(c) == IF IsLower(c) THEN c - 32 ELSE c
Lower(c) == IF IsUpper(c) THEN c + 32 ELSE c

\* str.upper(), str.replace(' ', ''), ''.join(c for c in s if c.isalpha())
StrUpper(s) == [i \in 1..Len(s) |-> Upper(s[i])]
StrLower(s) == [i \in 1..Len(s) |-> Lower(s[i])]
NotBlank(c) == c # 32
StripSpaces(s) == SelectSeq(s, NotBlank)
Letters(s) == SelectSeq(s, IsAlpha)
\* str.isalpha(): non-empty and every character alphabetic
StrIsAlpha(s) == Len(s) > 0 /\ \A i \in 1..Len(s) : IsAlpha(s[i])

\* Python truthiness of a value ("not key")
Truthy(v) ==
    CASE v.t = "str" -> Len(v.s) > 0
      [] v.t = "int" -> v.n # 0
      [] OTHER -> FALSE

\* str.strip()
RECURSIVE LStrip(_)
LStrip(s) == IF Len(s) > 0 /\ IsSpace(Head(s)) THEN LStrip(Tail(s)) ELSE s
RECURSIVE RStrip(_)
RStrip(s) ==
    IF Len(s) > 0 /\ IsSpace(s[Len(s)]) THEN RStrip(SubSeq(s, 1, Len(s) - 1)) ELSE s
Strip(s) == RStrip(LStrip(s))

\* str.split(): the maximal runs of non-whitespace characters
RECURSIVE Split(_)
Split(s) ==
    LET r == LStrip(s)
        n == IF \E i \in 1..Len(r) : IsSpace(r[i])
             THEN (CHOOSE i \in 1..Len(r) :
                      IsSpace(r[i]) /\ \A j \in 1..(i - 1) : ~IsSpace(r[j])) - 1
             ELSE Len(r)
    IN IF Len(r) = 0 THEN <<>>
       ELSE <<SubSeq(r, 1, n)>> \o Split(SubSeq(r, n + 1, Len(r)))

\* the value of a run of decimal digits
RECURSIVE DigitsValue(_)
DigitsValue(d) ==
    IF Len(d) = 0 THEN 0
    ELSE 10 * DigitsValue(SubSeq(d, 1, Len(d) - 1)) + (d[Len(d)] - 48)

\* int(s) for a str: surrounding whitespace, an optional sign, decimal digits
ParseInt(s) ==
    LET r == Strip(s)
        signed == Len(r) > 0 /\ r[1] \in {43, 45}
        d == IF signed THEN Tail(r) ELSE r
    IN IF Len(d) > 0 /\ \A i \in 1..Len(d) : IsDigit(d[i])
       THEN Ret(IF signed /\ r[1] = 45 THEN 0 - DigitsValue(d) ELSE DigitsValue(d))
       ELSE Raise("ValueError")

\* int(key) for any value
PyInt(v) ==
    CASE v.t = "int" -> Ret(v.n)
      [] v.t = "str" -> ParseInt(v.s)
      [] OTHER -> Raise("TypeError")

\* the decimal digits of a natural number
RECURSIVE NatDigits(_)
NatDigits(i) ==
    IF i < 10 THEN <<48 + i>> ELSE NatDigits(i \div 10) \o <<48 + (i % 10)>>

\* str(key) for any value
PyStr(v) ==
    CASE v.t = "str" -> v.s
      [] v.t = "int" -> IF v.n < 0 THEN <<45>> \o NatDigits(0 - v.n) ELSE NatDigits(v.n)
      [] v.t = "NoneType" -> <<78, 111, 110, 101>>
      [] OTHER -> <<91, 93>>

\* math.gcd
RECURSIVE Gcd(_, _)
Gcd(a, b) ==
    LET x == IF a < 0 THEN 0 - a ELSE a
        y == IF b < 0 THEN 0 - b ELSE b
    IN IF y = 0 THEN x ELSE Gcd(y, x % y)

---------------------------------------------------------------------------
(* caesar.py *)

\* CaesarCipher.encrypt: the text is upper-cased before the loop
CaesarCipher_encrypt(plaintext, k) ==
    LET shift == PyInt(k) IN
    IF shift.kind = "raise" THEN shift
    ELSE IF plaintext.t # "str" THEN Raise("AttributeError")
    ELSE LET up == StrUpper(plaintext.s) IN
         Ret([i \in 1..Len(up) |->
                IF IsAlpha(up[i])
                THEN ((up[i] - OrdA + (shift.val % M)) % M) + OrdA
                ELSE up[i]])

CaesarCipher_decrypt(ciphertext, k) ==
    LET shift == PyInt(k) IN
    IF shift.kind = "raise" THEN shift
    ELSE CaesarCipher_encrypt(ciphertext, IntV(M - (shift.val % M)))

CaesarCipher_validate_key(k) ==
    LET i == PyInt(k) IN
    IF i.kind = "raise" THEN Ret(<<FALSE, "Key must be a number">>)
    ELSE IF 1 <= i.val /\ i.val <= 25 THEN Ret(<<TRUE, "">>)
    ELSE Ret(<<FALSE, "Shift must be between 1 and 25">>)

---------------------------------------------------------------------------
(* additive.py *)

AdditiveShift(s, k) ==
    [i \in 1..Len(s) |->
        IF IsAlpha(s[i])
        THEN LET base == IF IsUpper(s[i]) THEN OrdA ELSE Orda
             IN ((s[i] - base + k) % M) + base
        ELSE s[i]]

AdditiveCipher_encrypt(plaintext, k) ==
    LET i == PyInt(k) IN
    IF i.kind = "raise" THEN i
    ELSE IF plaintext.t # "str" THEN Raise("TypeError")
    ELSE Ret(AdditiveShift(plaintext.s, i.val % M))

\* a variant that shifts forward again
AdditiveCipher_decrypt_ShiftsForward(ciphertext, k) ==
    LET i == PyInt(k) IN
    IF i.kind = "raise" THEN i
    ELSE IF ciphertext.t # "str" THEN Raise("TypeError")
    ELSE Ret(AdditiveShift(ciphertext.s, i.val % M))

AdditiveCipher_decrypt(ciphertext, k) ==
    LET i == PyInt(k) IN
    IF i.kind = "raise" THEN i
    ELSE IF ciphertext.t # "str" THEN Raise("TypeError")
    ELSE Ret(AdditiveShift(ciphertext.s, 0 - (i.val % M)))

AdditiveCipher_validate_key(k) ==
    LET i == PyInt(k) IN
    IF i.kind = "raise" THEN Ret(<<FALSE, "Key must be a number">>)
    ELSE IF 0 <= i.val /\ i.val <= 25 THEN Ret(<<TRUE, "">>)
    ELSE Ret(<<FALSE, "Key must be between 0 and 25">>)

---------------------------------------------------------------------------
(* multiplicative.py *)

\* MultiplicativeCipher._mod_inverse: brute-force search over 1..m-1
MultiplicativeCipher_mod_inverse(a, m) ==
    IF \E x \in 1..(m - 1) : (a * x) % m = 1
    THEN Ret(CHOOSE x \in 1..(m - 1) :
                /\ (a * x) % m = 1
                /\ \A y \in 1..(x - 1) : (a * y) % m # 1)
    ELSE Raise("ValueError")

\* the loop shared by encrypt and decrypt: x -> (f * x) mod 26 on the upper-cased text
MultiplicativeMap(s, f) ==
    LET up == StrUpper(s) IN
    [i \in 1..Len(up) |->
        IF IsAlpha(up[i]) THEN ((f * (up[i] - OrdA)) % M) + OrdA ELSE up[i]]

MultiplicativeCipher_encrypt(plaintext, k) ==
    LET i == PyInt(k) IN
    IF i.kind = "raise" THEN i
    ELSE IF plaintext.t # "str" THEN Raise("AttributeError")
    ELSE Ret(MultiplicativeMap(plaintext.s, i.val))

MultiplicativeCipher_decrypt(ciphertext, k) ==
    LET i == PyInt(k) IN
    IF i.kind = "raise" THEN i
    ELSE LET k_inv == MultiplicativeCipher_mod_inverse(i.val, M) IN
         IF k_inv.kind = "raise" THEN k_inv
         ELSE IF ciphertext.t # "str" THEN Raise("AttributeError")
         ELSE Ret(MultiplicativeMap(ciphertext.s, k_inv.val))

\* faulty variant of validate_key: only even keys are rejected
MultiplicativeCipher_validate_key_OddOnly(k) ==
    LET i == PyInt(k) IN
    IF i.kind = "raise" THEN Ret(<<FALSE, "Key must be a number">>)
    ELSE IF i.val % 2 = 0
    THEN Ret(<<FALSE, "Key ({k}) must be coprime with 26. Valid: 1,3,5,7,9,11,15,17,19,21,23,25">>)
    ELSE Ret(<<TRUE, "">>)

MultiplicativeCipher_validate_key(k) ==
    LET i == PyInt(k) IN
    IF i.kind = "raise" THEN Ret(<<FALSE, "Key must be a number">>)
    ELSE IF Gcd(i.val, M) # 1
    THEN Ret(<<FALSE, "Key ({k}) must be coprime with 26. Valid: 1,3,5,7,9,11,15,17,19,21,23,25">>)
    ELSE Ret(<<TRUE, "">>)

---------------------------------------------------------------------------
(* affine.py *)

\* AffineCipher._mod_inverse: brute-force search over 1..m-1
AffineCipher_mod_inverse(a, m) ==
    IF \E x \in 1..(m - 1) : (a * x) % m = 1
    THEN Ret(CHOOSE x \in 1..(m - 1) :
                /\ (a * x) % m = 1
                /\ \A y \in 1..(x - 1) : (a * y) % m # 1)
    ELSE Raise("ValueError")

\* AffineCipher._parse_key: key.split() needs a str
AffineCipher_parse_key(k) ==
    IF k.t # "str" THEN Raise("AttributeError")
    ELSE LET parts == Split(k.s) IN
         IF Len(parts) # 2 THEN Raise("ValueError")
         ELSE LET a == ParseInt(parts[1])
                  b == ParseInt(parts[2])
              IN IF a.kind = "raise" THEN a
                 ELSE IF b.kind = "raise" THEN b
                 ELSE Ret(<<a.val, b.val>>)

AffineCipher_encrypt(plaintext, k) ==
    LET ab == AffineCipher_parse_key(k) IN
    IF ab.kind = "raise" THEN ab
    ELSE IF plaintext.t # "str" THEN Raise("AttributeError")
    ELSE LET up == StrUpper(plaintext.s) IN
         Ret([i \in 1..Len(up) |->
                IF IsAlpha(up[i])
                THEN ((ab.val[1] * (up[i] - OrdA) + ab.val[2]) % M) + OrdA
                ELSE up[i]])

\* faulty variant of decrypt: b is not taken off before the multiplication
AffineCipher_decrypt_KeepsB(ciphertext, k) ==
    LET ab == AffineCipher_parse_key(k) IN
    IF ab.kind = "raise" THEN ab
    ELSE LET a_inv == AffineCipher_mod_inverse(ab.val[1], M) IN
         IF a_inv.kind = "raise" THEN a_inv
         ELSE IF ciphertext.t # "str" THEN Raise("AttributeError")
         ELSE LET up == StrUpper(ciphertext.s) IN
              Ret([i \in 1..Len(up) |->
                     IF IsAlpha(up[i])
                     THEN ((a_inv.val * (up[i] - OrdA)) % M) + OrdA
                     ELSE up[i]])

AffineCipher_decrypt(ciphertext, k) ==
    LET ab == AffineCipher_parse_key(k) IN
    IF ab.kind = "raise" THEN ab
    ELSE LET a_inv == AffineCipher_mod_inverse(ab.val[1], M) IN
         IF a_inv.kind = "raise" THEN a_inv
         ELSE IF ciphertext.t # "str" THEN Raise("AttributeError")
         ELSE LET up == StrUpper(ciphertext.s) IN
              Ret([i \in 1..Len(up) |->
                     IF IsAlpha(up[i])
                     THEN ((a_inv.val * ((up[i] - OrdA) - ab.val[2])) % M) + OrdA
                     ELSE up[i]])

\* AffineCipher.validate_key: key.split() is inside the try, but the handler
\* catches only ValueError and TypeError
AffineCipher_validate_key(k) ==
    IF k.t # "str" THEN Raise("AttributeError")
    ELSE LET parts == Split(k.s) IN
         IF Len(parts) # 2 THEN Ret(<<FALSE, "Key must be two numbers: 'a b'">>)
         ELSE LET a == ParseInt(parts[1])
                  b == ParseInt(parts[2])
              IN IF a.kind = "raise" \/ b.kind = "raise"
                 THEN Ret(<<FALSE, "Key must be two space-separated numbers">>)
                 ELSE IF Gcd(a.val, M) # 1
                 THEN Ret(<<FALSE,
                    "'a' ({a}) must be coprime with 26. Valid: 1,3,5,7,9,11,15,17,19,21,23,25">>)
                 ELSE Ret(<<TRUE, "">>)

---------------------------------------------------------------------------
(* vigenere.py *)

\* the number of letters of s before position i: the value of key_index there
LettersBefore(s, i) == Cardinality({j \in 1..(i - 1) : IsAlpha(s[j])})

\* faulty variant of the loop: every character advances the key position
VigenereLoop_EveryCharacterAdvances(s, kk, sign) ==
    LET up == StrUpper(s) IN
    [i \in 1..Len(up) |->
        IF IsAlpha(up[i])
        THEN LET shift == kk[((i - 1) % Len(kk)) + 1] - OrdA
             IN ((up[i] - OrdA + sign * shift) % M) + OrdA
        ELSE up[i]]

\* the loop shared by encrypt (sign 1) and decrypt (sign -1); kk is the key
\* upper-cased and without blanks, and is not empty
VigenereLoop(s, kk, sign) ==
    LET up == StrUpper(s) IN
    [i \in 1..Len(up) |->
        IF IsAlpha(up[i])
        THEN LET shift == kk[(LettersBefore(up, i) % Len(kk)) + 1] - OrdA
             IN ((up[i] - OrdA + sign * shift) % M) + OrdA
        ELSE up[i]]

\* key[key_index % len(key)] divides by zero at the first letter when the key is empty
VigenereTransform(t, k, sign) ==
    IF k.t # "str" THEN Raise("AttributeError")
    ELSE IF t.t # "str" THEN Raise("AttributeError")
    ELSE LET kk == StripSpaces(StrUpper(k.s)) IN
         IF Len(kk) = 0 /\ Len(Letters(t.s)) > 0 THEN Raise("ZeroDivisionError")
         ELSE IF Len(kk) = 0 THEN Ret(StrUpper(t.s))
         ELSE Ret(VigenereLoop(t.s, kk, sign))

VigenereCipher_encrypt(plaintext, k) == VigenereTransform(plaintext, k, 1)

VigenereCipher_decrypt(ciphertext, k) == VigenereTransform(ciphertext, k, -1)

VigenereCipher_validate_key(k) ==
    IF ~Truthy(k) \/ k.t # "str" THEN Ret(<<FALSE, "Key is required">>)
    ELSE IF ~StrIsAlpha(StripSpaces(k.s))
    THEN Ret(<<FALSE, "Key must contain only letters">>)
    ELSE Ret(<<TRUE, "">>)

---------------------------------------------------------------------------
(* autokey.py *)

\* ''.join(c.upper() for c in str(key) if c.isalpha())
KeyLetters(k) == StrUpper(Letters(PyStr(k)))

\* one letter shifted by shift places (sign 1) or back (sign -1), case kept
ShiftKeepCase(c, shift, sign) ==
    LET r == ((Upper(c) - OrdA) + sign * shift) % M
    IN IF IsUpper(c) THEN r + OrdA ELSE r + Orda

\* faulty variant of encrypt: the primer is repeated, the plaintext not appended
AutokeyCipher_encrypt_RepeatsPrimer(plaintext, k) ==
    LET primer == KeyLetters(k) IN
    IF Len(primer) = 0 THEN Raise("ValueError")
    ELSE IF plaintext.t # "str" THEN Raise("TypeError")
    ELSE LET p == plaintext.s
         IN Ret([i \in 1..Len(p) |->
                   IF IsAlpha(p[i])
                   THEN ShiftKeepCase(p[i],
                           primer[(LettersBefore(p, i) % Len(primer)) + 1] - OrdA, 1)
                   ELSE p[i]])

AutokeyCipher_encrypt(plaintext, k) ==
    LET primer == KeyLetters(k) IN
    IF Len(primer) = 0 THEN Raise("ValueError")
    ELSE IF plaintext.t # "str" THEN Raise("TypeError")
    ELSE LET full_key == primer \o StrUpper(Letters(plaintext.s))
             p == plaintext.s
         IN Ret([i \in 1..Len(p) |->
                   IF IsAlpha(p[i])
                   THEN ShiftKeepCase(p[i], full_key[LettersBefore(p, i) + 1] - OrdA, 1)
                   ELSE p[i]])

\* the decrypt loop from position i on: current_key grows by each recovered letter
RECURSIVE AutokeyDecryptLoop(_, _, _, _, _)
AutokeyDecryptLoop(c, i, current_key, key_index, result) ==
    IF i > Len(c) THEN result
    ELSE IF IsAlpha(c[i])
    THEN LET shift == current_key[key_index + 1] - OrdA
             decrypted_char == (((Upper(c[i]) - OrdA) - shift) % M) + OrdA
             out == IF IsUpper(c[i]) THEN decrypted_char ELSE Lower(decrypted_char)
         IN AutokeyDecryptLoop(c, i + 1, Append(current_key, decrypted_char),
                               key_index + 1, Append(result, out))
    ELSE AutokeyDecryptLoop(c, i + 1, current_key, key_index, Append(result, c[i]))

AutokeyCipher_decrypt(ciphertext, k) ==
    LET primer == KeyLetters(k) IN
    IF Len(primer) = 0 THEN Raise("ValueError")
    ELSE IF ciphertext.t # "str" THEN Raise("TypeError")
    ELSE Ret(AutokeyDecryptLoop(ciphertext.s, 1, primer, 0, <<>>))

\* faulty variant of one iteration: the key is extended with the ciphertext letter
AutokeyDecryptStep_AppendsCiphertext(c, l) ==
    LET char == c[l.i] IN
    IF IsAlpha(char)
    THEN LET shift == l.current_key[l.key_index + 1] - OrdA
             decrypted_char == (((Upper(char) - OrdA) - shift) % M) + OrdA
             out == IF IsUpper(char) THEN decrypted_char ELSE Lower(decrypted_char)
         IN [l EXCEPT !.i = @ + 1,
                      !.result = Append(@, out),
                      !.current_key = Append(@, Upper(char)),
                      !.key_index = @ + 1,
                      !.shift = Append(@, shift)]
    ELSE [l EXCEPT !.i = @ + 1, !.result = Append(@, char)]

\* one iteration of the decrypt loop on the locals l, for the character c[l.i];
\* l.shift keeps every value the local variable shift has had
AutokeyDecryptStep(c, l) ==
    LET char == c[l.i] IN
    IF IsAlpha(char)
    THEN LET shift == l.current_key[l.key_index + 1] - OrdA
             decrypted_char == (((Upper(char) - OrdA) - shift) % M) + OrdA
             out == IF IsUpper(char) THEN decrypted_char ELSE Lower(decrypted_char)
         IN [l EXCEPT !.i = @ + 1,
                      !.result = Append(@, out),
                      !.current_key = Append(@, decrypted_char),
                      !.key_index = @ + 1,
                      !.shift = Append(@, shift)]
    ELSE [l EXCEPT !.i = @ + 1, !.result = Append(@, char)]

AutokeyCipher_validate_key(k) ==
    IF ~Truthy(k) \/ k.t # "str" THEN Ret(<<FALSE, "Key is required">>)
    ELSE IF Len(Letters(k.s)) = 0
    THEN Ret(<<FALSE, "Key must contain at least one letter">>)
    ELSE Ret(<<TRUE, "">>)

---------------------------------------------------------------------------
(* otp.py *)

\* faulty variant of the transform: a short key is repeated instead of refused
OTPTransform_RepeatsKey(t, k, sign) ==
    LET kk == KeyLetters(k) IN
    IF Len(kk) = 0 THEN Raise("ValueError")
    ELSE IF t.t # "str" THEN Raise("TypeError")
    ELSE Ret([i \in 1..Len(t.s) |->
                IF IsAlpha(t.s[i])
                THEN ShiftKeepCase(t.s[i],
                        kk[(LettersBefore(t.s, i) % Len(kk)) + 1] - OrdA, sign)
                ELSE t.s[i]])

\* encrypt (sign 1) and decrypt (sign -1): the key letters are checked against
\* the number of letters of the text before the loop
OTPTransform(t, k, sign) ==
    LET kk == KeyLetters(k) IN
    IF Len(kk) = 0 THEN Raise("ValueError")
    ELSE IF t.t # "str" THEN Raise("TypeError")
    ELSE IF Len(kk) < Len(Letters(t.s)) THEN Raise("ValueError")
    ELSE Ret([i \in 1..Len(t.s) |->
                IF IsAlpha(t.s[i])
                THEN ShiftKeepCase(t.s[i], kk[LettersBefore(t.s, i) + 1] - OrdA, sign)
                ELSE t.s[i]])

OTPCipher_encrypt(plaintext, k) == OTPTransform(plaintext, k, 1)

OTPCipher_decrypt(ciphertext, k) == OTPTransform(ciphertext, k, -1)

OTPCipher_validate_key(k) ==
    IF ~Truthy(k) \/ k.t # "str" THEN Ret(<<FALSE, "Key is required">>)
    ELSE IF Len(Letters(k.s)) = 0 THEN Ret(<<FALSE, "Key must contain letters">>)
    ELSE Ret(<<TRUE, "">>)

---------------------------------------------------------------------------
(* hill.py *)

\* HillCipher.MOD_INVERSES
MOD_INVERSES ==
    (1 :> 1) @@ (3 :> 9) @@ (5 :> 21) @@ (7 :> 15) @@ (9 :> 3) @@ (11 :> 19) @@
    (15 :> 7) @@ (17 :> 23) @@ (19 :> 11) @@ (21 :> 5) @@ (23 :> 17) @@ (25 :> 25)

\* [int(x) for x in str(key).split()]: the first token that is no integer raises
HillNumbers(k) ==
    LET parts == Split(PyStr(k)) IN
    IF \E i \in 1..Len(parts) : ParseInt(parts[i]).kind = "raise"
    THEN Raise("ValueError")
    ELSE Ret([i \in 1..Len(parts) |-> ParseInt(parts[i]).val])

HillCipher_parse_key(k) ==
    LET numbers == HillNumbers(k) IN
    IF numbers.kind = "raise" THEN numbers
    ELSE IF Len(numbers.val) # 4 THEN Raise("ValueError")
    ELSE Ret(<< <<numbers.val[1], numbers.val[2]>>, <<numbers.val[3], numbers.val[4]>> >>)

HillCipher_determinant(matrix) ==
    matrix[1][1] * matrix[2][2] - matrix[1][2] * matrix[2][1]

\* faulty variant of _mod_inverse: the table is read at a itself, not at a mod 26
HillCipher_mod_inverse_NoReduce(a) ==
    IF a \in DOMAIN MOD_INVERSES THEN Ret(MOD_INVERSES[a]) ELSE Raise("ValueError")

HillCipher_mod_inverse(a) ==
    LET r == a % M
        b == IF r < 0 THEN r + M ELSE r
    IN IF b \in DOMAIN MOD_INVERSES THEN Ret(MOD_INVERSES[b]) ELSE Raise("ValueError")

\* faulty variant of _matrix_inverse: the off-diagonal of the adjugate keeps its sign
HillCipher_matrix_inverse_NoNegate(matrix) ==
    LET det == HillCipher_determinant(matrix)
        det_inv == HillCipher_mod_inverse(det % M)
        adj == << <<matrix[2][2], matrix[1][2]>>, <<matrix[2][1], matrix[1][1]>> >>
    IN IF det_inv.kind = "raise" THEN det_inv
       ELSE Ret(<< <<(det_inv.val * adj[1][1]) % M, (det_inv.val * adj[1][2]) % M>>,
                   <<(det_inv.val * adj[2][1]) % M, (det_inv.val * adj[2][2]) % M>> >>)

HillCipher_matrix_inverse(matrix) ==
    LET det == HillCipher_determinant(matrix)
        det_mod == IF det % M < 0 THEN (det % M) + M ELSE det % M
        det_inv == HillCipher_mod_inverse(det_mod)
        adj == << <<matrix[2][2], 0 - matrix[1][2]>>, <<0 - matrix[2][1], matrix[1][1]>> >>
    IN IF det_inv.kind = "raise" THEN det_inv
       ELSE Ret(<< <<(det_inv.val * adj[1][1]) % M, (det_inv.val * adj[1][2]) % M>>,
                   <<(det_inv.val * adj[2][1]) % M, (det_inv.val * adj[2][2]) % M>> >>)

HillCipher_matrix_multiply(matrix, vector) ==
    << (matrix[1][1] * vector[1] + matrix[1][2] * vector[2]) % M,
       (matrix[2][1] * vector[1] + matrix[2][2] * vector[2]) % M >>

\* the pair loop of encrypt and decrypt over an even number of upper-case letters
HillPairs(matrix, clean) ==
    [i \in 1..Len(clean) |->
        LET p == ((i - 1) \div 2) * 2 + 1
            v == HillCipher_matrix_multiply(matrix,
                    <<clean[p] - OrdA, clean[p + 1] - OrdA>>)
        IN v[i - p + 1] + OrdA]

HillCipher_encrypt(plaintext, k) ==
    LET matrix == HillCipher_parse_key(k) IN
    IF matrix.kind = "raise" THEN matrix
    ELSE IF plaintext.t # "str" THEN Raise("TypeError")
    ELSE LET letters == StrUpper(Letters(plaintext.s))
             clean == IF Len(letters) % 2 # 0 THEN Append(letters, 88) ELSE letters
         IN Ret(HillPairs(matrix.val, clean))

\* decrypt drops a trailing single letter (the loop breaks at i + 1 >= len)
HillCipher_decrypt(ciphertext, k) ==
    LET matrix == HillCipher_parse_key(k) IN
    IF matrix.kind = "raise" THEN matrix
    ELSE LET inv_matrix == HillCipher_matrix_inverse(matrix.val) IN
         IF inv_matrix.kind = "raise" THEN inv_matrix
         ELSE IF ciphertext.t # "str" THEN Raise("TypeError")
         ELSE LET letters == StrUpper(Letters(ciphertext.s))
                  clean == SubSeq(letters, 1, (Len(letters) \div 2) * 2)
              IN Ret(HillPairs(inv_matrix.val, clean))

\* faulty variant of validate_key: only a zero determinant is rejected
HillCipher_validate_key_NoGcd(k) ==
    LET numbers == HillNumbers(k) IN
    IF numbers.kind = "raise" THEN Ret(<<FALSE, "Key must be 4 space-separated numbers">>)
    ELSE IF Len(numbers.val) # 4
    THEN Ret(<<FALSE, "Key must be 4 numbers for a 2x2 matrix">>)
    ELSE LET det == numbers.val[1] * numbers.val[4] - numbers.val[2] * numbers.val[3]
         IN IF det % M = 0 THEN Ret(<<FALSE, "Matrix determinant cannot be 0 mod 26">>)
            ELSE Ret(<<TRUE, "">>)

HillCipher_validate_key(k) ==
    LET numbers == HillNumbers(k) IN
    IF numbers.kind = "raise" THEN Ret(<<FALSE, "Key must be 4 space-separated numbers">>)
    ELSE IF Len(numbers.val) # 4
    THEN Ret(<<FALSE, "Key must be 4 numbers for a 2x2 matrix">>)
    ELSE LET det == numbers.val[1] * numbers.val[4] - numbers.val[2] * numbers.val[3]
             det_mod == IF det % M < 0 THEN (det % M) + M ELSE det % M
         IN IF det_mod = 0 THEN Ret(<<FALSE, "Matrix determinant cannot be 0 mod 26">>)
            ELSE IF Gcd(det_mod, M) # 1
            THEN Ret(<<FALSE, "Determinant ({det_mod}) must be coprime with 26">>)
            ELSE Ret(<<TRUE, "">>)

---------------------------------------------------------------------------
(* playfair.py *)

\* 'ABCDEFGHIKLMNOPQRSTUVWXYZ': the alphabet with I and J combined
PlayfairAlphabet ==
    <<65, 66, 67, 68, 69, 70, 71, 72, 73, 75, 76, 77, 78, 79, 80, 81, 82, 83, 84,
      85, 86, 87, 88, 89, 90>>

\* str.replace('J', 'I')
JToI(s) == [i \in 1..Len(s) |-> IF s[i] = 74 THEN 73 ELSE s[i]]

\* the characters of s that satisfy char.isalpha() and were not seen before
RECURSIVE FirstLetters(_, _)
FirstLetters(s, seen) ==
    IF Len(s) = 0 THEN <<>>
    ELSE IF IsAlpha(Head(s)) /\ Head(s) \notin seen
    THEN <<Head(s)>> \o FirstLetters(Tail(s), seen \cup {Head(s)})
    ELSE FirstLetters(Tail(s), seen)

\* PlayfairCipher._create_matrix: five rows of five letters
PlayfairCipher_create_matrix(k) ==
    LET cleaned == StripSpaces(JToI(StrUpper(k)))
        key_chars == FirstLetters(cleaned, {})
        in_key == {key_chars[i] : i \in 1..Len(key_chars)}
        NotInKey(c) == c \notin in_key
        matrix_chars == key_chars \o SelectSeq(PlayfairAlphabet, NotInKey)
    IN [r \in 1..5 |-> SubSeq(matrix_chars, 5 * (r - 1) + 1, 5 * r)]

\* PlayfairCipher._find_position raises ValueError: no row holds the character
PlayfairCipher_find_position_raises(matrix, char) ==
    LET c == IF char = 74 THEN 73 ELSE char
    IN \A p \in (0..4) \X (0..4) : matrix[p[1] + 1][p[2] + 1] # c

\* PlayfairCipher._find_position: <<row, column>> counted from 0, of a
\* character that a row holds
PlayfairCipher_find_position(matrix, char) ==
    LET c == IF char = 74 THEN 73 ELSE char
    IN CHOOSE p \in (0..4) \X (0..4) : matrix[p[1] + 1][p[2] + 1] = c

\* PlayfairCipher._prepare_text: the loop over the cleaned text
RECURSIVE PlayfairDigraphs(_)
PlayfairDigraphs(s) ==
    IF Len(s) = 0 THEN <<>>
    ELSE IF Len(s) = 1 THEN << <<s[1], 88>> >>
    ELSE IF s[1] = s[2] THEN << <<s[1], 88>> >> \o PlayfairDigraphs(Tail(s))
    ELSE << <<s[1], s[2]>> >> \o PlayfairDigraphs(Tail(Tail(s)))

PlayfairCipher_prepare_text(s) == PlayfairDigraphs(Letters(StripSpaces(JToI(StrUpper(s)))))

\* a variant that moves right and down whatever the step
PlayfairDigraph_AlwaysForward(matrix, digraph, step) ==
    LET p1 == PlayfairCipher_find_position(matrix, digraph[1])
        p2 == PlayfairCipher_find_position(matrix, digraph[2])
    IN IF p1[1] = p2[1]
       THEN <<matrix[p1[1] + 1][((p1[2] + 1) % 5) + 1],
              matrix[p2[1] + 1][((p2[2] + 1) % 5) + 1]>>
       ELSE IF p1[2] = p2[2]
       THEN <<matrix[((p1[1] + 1) % 5) + 1][p1[2] + 1],
              matrix[((p2[1] + 1) % 5) + 1][p2[2] + 1]>>
       ELSE <<matrix[p1[1] + 1][p2[2] + 1], matrix[p2[1] + 1][p1[2] + 1]>>

\* one digraph through the matrix: step 1 in encrypt, step -1 in decrypt
PlayfairDigraph(matrix, digraph, step) ==
    LET p1 == PlayfairCipher_find_position(matrix, digraph[1])
        p2 == PlayfairCipher_find_position(matrix, digraph[2])
        r1 == p1[1]
        c1 == p1[2]
        r2 == p2[1]
        c2 == p2[2]
    IN IF r1 = r2
       THEN <<matrix[r1 + 1][((c1 + step) % 5) + 1], matrix[r2 + 1][((c2 + step) % 5) + 1]>>
       ELSE IF c1 = c2
       THEN <<matrix[((r1 + step) % 5) + 1][c1 + 1], matrix[((r2 + step) % 5) + 1][c2 + 1]>>
       ELSE <<matrix[r1 + 1][c2 + 1], matrix[r2 + 1][c1 + 1]>>

\* ''.join(result) of the digraphs taken through the matrix
RECURSIVE PlayfairJoin(_, _, _)
PlayfairJoin(matrix, digraphs, step) ==
    IF Len(digraphs) = 0 THEN <<>>
    ELSE PlayfairDigraph(matrix, Head(digraphs), step)
            \o PlayfairJoin(matrix, Tail(digraphs), step)

PlayfairCipher_encrypt(plaintext, k) ==
    IF k.t # "str" \/ plaintext.t # "str" THEN Raise("AttributeError")
    ELSE LET matrix == PlayfairCipher_create_matrix(k.s)
             digraphs == PlayfairCipher_prepare_text(plaintext.s)
         IN IF \E i \in 1..Len(digraphs) : \E j \in 1..2 :
                   PlayfairCipher_find_position_raises(matrix, digraphs[i][j])
            THEN Raise("ValueError")
            ELSE Ret(PlayfairJoin(matrix, digraphs, 1))

\* decrypt cuts the letters of the ciphertext in twos and looks up each letter
\* in turn; a last single letter has no digraph[1]
PlayfairCipher_decrypt(ciphertext, k) ==
    IF k.t # "str" \/ ciphertext.t # "str" THEN Raise("AttributeError")
    ELSE LET letters == Letters(StripSpaces(StrUpper(ciphertext.s)))
             digraphs == [i \in 1..(Len(letters) \div 2) |->
                             <<letters[2 * i - 1], letters[2 * i]>>]
             matrix == PlayfairCipher_create_matrix(k.s)
         IN IF \E i \in 1..Len(letters) :
                   PlayfairCipher_find_position_raises(matrix, letters[i])
            THEN Raise("ValueError")
            ELSE IF Len(letters) % 2 # 0 THEN Raise("IndexError")
            ELSE Ret(PlayfairJoin(matrix, digraphs, -1))

---------------------------------------------------------------------------
(* railfence.py *)

\* the rails visited by the zigzag loop for n characters, from the given rail
\* and direction: "rail += direction", then the turn at rail 0 and rails - 1
RECURSIVE RailFenceZigzag(_, _, _, _)
RailFenceZigzag(n, rails, rail, direction) ==
    IF n = 0 THEN <<>>
    ELSE LET next_rail == rail + direction
             next_direction ==
                 IF next_rail = 0 \/ next_rail = rails - 1
                 THEN 0 - direction ELSE direction
         IN <<rail>> \o RailFenceZigzag(n - 1, rails, next_rail, next_direction)

\* ''.join(''.join(rail) for rail in fence), the rails from first to last
RECURSIVE RailFenceJoin(_, _, _)
RailFenceJoin(fence, rail, rails) ==
    IF rail = rails THEN <<>>
    ELSE fence[rail] \o RailFenceJoin(fence, rail + 1, rails)

\* a variant that reads the rails from last to first
RailFenceCipher_encrypt_LastRailFirst(plaintext, k) ==
    LET rails == PyInt(k)
        s == StrUpper(StripSpaces(plaintext.s))
        zigzag == RailFenceZigzag(Len(s), rails.val, 0, 1)
        OnRail(r) == {i \in 1..Len(s) : zigzag[i] = r}
        Nth(r, j) == CHOOSE i \in OnRail(r) : Cardinality({h \in OnRail(r) : h <= i}) = j
        fence == [r \in 0..(rails.val - 1) |->
                     [j \in 1..Cardinality(OnRail(rails.val - 1 - r)) |->
                         s[Nth(rails.val - 1 - r, j)]]]
    IN IF rails.kind = "raise" THEN rails
       ELSE IF plaintext.t # "str" THEN Raise("AttributeError")
       ELSE IF rails.val <= 1 \/ rails.val >= Len(s) THEN Ret(s)
       ELSE Ret(RailFenceJoin(fence, 0, rails.val))

RailFenceCipher_encrypt(plaintext, k) ==
    LET rails == PyInt(k)
        s == StrUpper(StripSpaces(plaintext.s))
        zigzag == RailFenceZigzag(Len(s), rails.val, 0, 1)
        OnRail(r) == {i \in 1..Len(s) : zigzag[i] = r}
        Nth(r, j) == CHOOSE i \in OnRail(r) : Cardinality({h \in OnRail(r) : h <= i}) = j
        fence == [r \in 0..(rails.val - 1) |->
                     [j \in 1..Cardinality(OnRail(r)) |-> s[Nth(r, j)]]]
    IN IF rails.kind = "raise" THEN rails
       ELSE IF plaintext.t # "str" THEN Raise("AttributeError")
       ELSE IF rails.val <= 1 \/ rails.val >= Len(s) THEN Ret(s)
       ELSE Ret(RailFenceJoin(fence, 0, rails.val))

\* list(range(rails)) + list(range(rails - 2, 0, -1)), indexed from 0
RailFencePattern(rails) ==
    [i \in 0..(2 * rails - 3) |-> IF i < rails THEN i ELSE 2 * rails - 2 - i]

RailFenceCipher_decrypt(ciphertext, k) ==
    LET rails == PyInt(k)
        s == StrUpper(StripSpaces(ciphertext.s))
        n == Len(s)
        pattern == RailFencePattern(rails.val)
        period == 2 * rails.val - 2
        counts == [r \in 0..(rails.val - 1) |->
                      Cardinality({i \in 0..(n - 1) : pattern[i % period] = r})]
        RECURSIVE Idx(_)
        Idx(r) == IF r = 0 THEN 0 ELSE Idx(r - 1) + counts[r - 1]
        fence == [r \in 0..(rails.val - 1) |-> SubSeq(s, Idx(r) + 1, Idx(r) + counts[r])]
        zigzag == RailFenceZigzag(n, rails.val, 0, 1)
        \* indices[rail] when the loop reaches position i
        Taken(i) == Cardinality({j \in 1..(i - 1) : zigzag[j] = zigzag[i]})
    IN IF rails.kind = "raise" THEN rails
       ELSE IF ciphertext.t # "str" THEN Raise("AttributeError")
       ELSE IF rails.val <= 1 \/ rails.val >= n THEN Ret(s)
       ELSE Ret([i \in 1..n |-> fence[zigzag[i]][Taken(i) + 1]])

---------------------------------------------------------------------------
(* columnar.py *)

\* faulty variant of the column order: of two equal letters the later column
\* comes first
ColumnarCipher_get_column_order_LaterFirst(k) ==
    LET kk == StrUpper(k)
        Earlier(h, i) == kk[h + 1] < kk[i + 1] \/ (kk[h + 1] = kk[i + 1] /\ h > i)
        Rank(i) == Cardinality({h \in 0..(Len(kk) - 1) : Earlier(h, i)})
    IN [j \in 1..Len(kk) |-> CHOOSE i \in 0..(Len(kk) - 1) : Rank(i) = j - 1]

\* ColumnarCipher._get_column_order: the column indices, from 0, sorted by
\* (letter, index)
ColumnarCipher_get_column_order(k) ==
    LET kk == StrUpper(k)
        Earlier(h, i) == kk[h + 1] < kk[i + 1] \/ (kk[h + 1] = kk[i + 1] /\ h < i)
        Rank(i) == Cardinality({h \in 0..(Len(kk) - 1) : Earlier(h, i)})
    IN [j \in 1..Len(kk) |-> CHOOSE i \in 0..(Len(kk) - 1) : Rank(i) = j - 1]

ColumnarCipher_encrypt(plaintext, k) ==
    IF k.t # "str" \/ plaintext.t # "str" THEN Raise("AttributeError")
    ELSE LET kk == StripSpaces(StrUpper(k.s))
             s == StripSpaces(StrUpper(plaintext.s))
             num_cols == Len(kk)
             padding_needed == (num_cols - (Len(s) % num_cols)) % num_cols
             padded == s \o [i \in 1..padding_needed |-> 88]
             num_rows == Len(padded) \div num_cols
             column_order == ColumnarCipher_get_column_order(kk)
         IN IF num_cols = 0 THEN Raise("ZeroDivisionError")
            ELSE Ret([i \in 1..(num_cols * num_rows) |->
                        LET col == column_order[((i - 1) \div num_rows) + 1]
                            row == (i - 1) % num_rows
                        IN padded[row * num_cols + col + 1]])

\* a variant that fills the columns from left to right
ColumnarCipher_decrypt_LeftToRight(ciphertext, k) ==
    IF k.t # "str" \/ ciphertext.t # "str" THEN Raise("AttributeError")
    ELSE LET kk == StripSpaces(StrUpper(k.s))
             s == StripSpaces(StrUpper(ciphertext.s))
             num_cols == Len(kk)
             num_rows == Len(s) \div num_cols
         IN IF num_cols = 0 THEN Raise("ZeroDivisionError")
            ELSE Ret([i \in 1..(num_rows * num_cols) |->
                        s[((i - 1) % num_cols) * num_rows + ((i - 1) \div num_cols) + 1]])

ColumnarCipher_decrypt(ciphertext, k) ==
    IF k.t # "str" \/ ciphertext.t # "str" THEN Raise("AttributeError")
    ELSE LET kk == StripSpaces(StrUpper(k.s))
             s == StripSpaces(StrUpper(ciphertext.s))
             num_cols == Len(kk)
             num_rows == Len(s) \div num_cols
             column_order == ColumnarCipher_get_column_order(kk)
             \* columns[col] is the slice number j when column_order[j] = col
             Slice(col) == CHOOSE j \in 1..num_cols : column_order[j] = col
             columns == [col \in 0..(num_cols - 1) |->
                            SubSeq(s, (Slice(col) - 1) * num_rows + 1,
                                   Slice(col) * num_rows)]
         IN IF num_cols = 0 THEN Raise("ZeroDivisionError")
            ELSE Ret([i \in 1..(num_rows * num_cols) |->
                        columns[(i - 1) % num_cols][((i - 1) \div num_cols) + 1]])

---------------------------------------------------------------------------
(* hexadecimal text, as in feistel.py and vernam.py *)

\* '0123456789ABCDEF'
HexDigits == <<48, 49, 50, 51, 52, 53, 54, 55, 56, 57, 65, 66, 67, 68, 69, 70>>

IsHexDigit(c) == IsDigit(c) \/ c \in 65..70 \/ c \in 97..102

HexDigitValue(c) == IF IsDigit(c) THEN c - 48 ELSE Upper(c) - 55

\* the hexadecimal digits of a natural number, most significant first
RECURSIVE NatHex(_)
NatHex(i) ==
    IF i < 16 THEN <<HexDigits[i + 1]>> ELSE NatHex(i \div 16) \o <<HexDigits[(i % 16) + 1]>>

\* format(value, '02X') of a natural number
Format02X(value) == IF value < 16 THEN <<48>> \o NatHex(value) ELSE NatHex(value)

\* the value of a run of hexadecimal digits
RECURSIVE HexDigitsValue(_)
HexDigitsValue(d) ==
    IF Len(d) = 0 THEN 0
    ELSE 16 * HexDigitsValue(SubSeq(d, 1, Len(d) - 1)) + HexDigitValue(d[Len(d)])

\* int(s, 16) of a slice s of at most two characters: surrounding whitespace,
\* an optional sign, hexadecimal digits (a slice this short holds no '0x'
\* prefix and no '_' between digits)
ParseHex(s) ==
    LET r == Strip(s)
        signed == Len(r) > 0 /\ r[1] \in {43, 45}
        d == IF signed THEN Tail(r) ELSE r
    IN IF Len(d) > 0 /\ \A i \in 1..Len(d) : IsHexDigit(d[i])
       THEN Ret(IF signed /\ r[1] = 45 THEN 0 - HexDigitsValue(d) ELSE HexDigitsValue(d))
       ELSE Raise("ValueError")

\* s[i:i+2] for i in range(0, len(s), 2)
Pairs(s) == [j \in 1..((Len(s) + 1) \div 2) |-> SubSeq(s, 2 * j - 1, IF 2 * j <= Len(s) THEN 2 * j ELSE Len(s))]

\* a ^ b of two bits
Xor(a, b) == (a + b) % 2

\* the sequence f with every element worked out
Evaluated(f) == <<>> \o f

---------------------------------------------------------------------------
(* feistel.py *)

\* FeistelCipher._string_to_bits: (ord(char) >> i) & 1 for i from 7 down to 0
FeistelCipher_string_to_bits(s) ==
    [i \in 1..(8 * Len(s)) |->
        (s[((i - 1) \div 8) + 1] \div (2 ^ (7 - ((i - 1) % 8)))) % 2]

\* the value of the eight bits from position i, from 0, short slices filled
\* with 0
ByteAt(bits, i) ==
    LET Bit(j) == IF i + j + 1 <= Len(bits) THEN bits[i + j + 1] ELSE 0
    IN Bit(0) * 128 + Bit(1) * 64 + Bit(2) * 32 + Bit(3) * 16
         + Bit(4) * 8 + Bit(5) * 4 + Bit(6) * 2 + Bit(7)

\* FeistelCipher._bits_to_string: one character for every byte above 0
RECURSIVE FeistelCipher_bits_to_string(_)
FeistelCipher_bits_to_string(bits) ==
    IF Len(bits) = 0 THEN <<>>
    ELSE LET value == ByteAt(bits, 0)
             rest == FeistelCipher_bits_to_string(SubSeq(bits, 9, Len(bits)))
         IN IF value > 0 THEN <<value>> \o rest ELSE rest

\* FeistelCipher._bits_to_hex
RECURSIVE FeistelCipher_bits_to_hex(_)
FeistelCipher_bits_to_hex(bits) ==
    IF Len(bits) = 0 THEN <<>>
    ELSE Format02X(ByteAt(bits, 0))
            \o FeistelCipher_bits_to_hex(SubSeq(bits, 9, Len(bits)))

\* FeistelCipher._hex_to_bits: the bytes int(hex_str[i:i+2], 16), or the
\* ValueError of the first slice that is no number
FeistelCipher_hex_to_bits(hex_str) ==
    LET pairs == Pairs(StripSpaces(hex_str))
        bytes == [j \in 1..Len(pairs) |-> ParseHex(pairs[j])]
    IN IF \E j \in 1..Len(pairs) : bytes[j].kind = "raise" THEN Raise("ValueError")
       ELSE Ret([i \in 1..(8 * Len(pairs)) |->
                   (bytes[((i - 1) \div 8) + 1].val \div (2 ^ (7 - ((i - 1) % 8)))) % 2])

\* FeistelCipher._generate_round_keys: the key bits repeated up to 64 bits and
\* cut at 64; round key i, from 0, is the first 32 bits of the rotation by
\* (i + 1) * 4
FeistelCipher_generate_round_keys(k, num_rounds) ==
    LET bits == FeistelCipher_string_to_bits(k)
        key_bits == Evaluated([i \in 1..64 |-> bits[((i - 1) % Len(bits)) + 1]])
    IN [i \in 1..num_rounds |->
           Evaluated([j \in 1..32 |-> key_bits[((i * 4 + j - 1) % 64) + 1]])]

\* FeistelCipher._round_function: F(R, K)
FeistelCipher_round_function(right_half, round_key) ==
    LET n == Len(round_key)
        expanded == [i \in 1..n |-> right_half[((i - 1) % Len(right_half)) + 1]]
        xored == Evaluated([i \in 1..n |-> Xor(expanded[i], round_key[i])])
        \* every complete block of four bits rotated by one
        Substituted(p) ==
            LET b == p - (p % 4)
            IN IF b + 3 < n THEN xored[b + (((p % 4) + 1) % 4) + 1] ELSE xored[p + 1]
    IN Evaluated([i \in 1..(IF Len(right_half) < n THEN Len(right_half) ELSE n) |->
                Substituted(i - 1)])

\* the loop of _feistel_rounds over the round keys from index i on
RECURSIVE FeistelLoop(_, _, _, _)
FeistelLoop(left, right, round_keys, i) ==
    IF i > Len(round_keys) THEN right \o left
    ELSE LET f_result == FeistelCipher_round_function(right, round_keys[i])
             F(j) == IF j <= Len(f_result) THEN f_result[j] ELSE 0
             new_right == Evaluated([j \in 1..Len(left) |-> Xor(left[j], F(j))])
         IN FeistelLoop(right, new_right, round_keys, i + 1)

\* round_keys[::-1]
Reversed(s) == [i \in 1..Len(s) |-> s[Len(s) + 1 - i]]

\* FeistelCipher._feistel_rounds on a block of even length
FeistelCipher_feistel_rounds(bits, round_keys, decrypting) ==
    LET half_len == Len(bits) \div 2
    IN FeistelLoop(SubSeq(bits, 1, half_len), SubSeq(bits, half_len + 1, Len(bits)),
                   IF decrypting THEN Reversed(round_keys) ELSE round_keys, 1)

\* the 64-bit blocks of bits, each through _feistel_rounds; bits is a whole
\* number of blocks
RECURSIVE FeistelBlocks(_, _, _)
FeistelBlocks(bits, round_keys, decrypting) ==
    IF Len(bits) = 0 THEN <<>>
    ELSE FeistelCipher_feistel_rounds(SubSeq(bits, 1, 64), round_keys, decrypting)
            \o FeistelBlocks(SubSeq(bits, 65, Len(bits)), round_keys, decrypting)

\* bits filled with 0 up to a multiple of 64
PadTo64(bits) == bits \o [i \in 1..((64 - (Len(bits) % 64)) % 64) |-> 0]

FeistelCipher_encrypt(plaintext, k) ==
    IF ~Truthy(k) THEN Raise("ValueError")
    ELSE IF plaintext.t # "str" \/ k.t # "str" THEN Raise("TypeError")
    ELSE Ret(FeistelCipher_bits_to_hex(
                FeistelBlocks(PadTo64(FeistelCipher_string_to_bits(plaintext.s)),
                              FeistelCipher_generate_round_keys(k.s, 16), FALSE)))

FeistelCipher_decrypt(ciphertext, k) ==
    IF ~Truthy(k) THEN Raise("ValueError")
    ELSE IF ciphertext.t # "str" THEN Raise("AttributeError")
    ELSE LET bits == FeistelCipher_hex_to_bits(ciphertext.s)
         IN IF bits.kind = "raise" THEN bits
            ELSE IF k.t # "str" THEN Raise("TypeError")
            ELSE Ret(FeistelCipher_bits_to_string(
                        FeistelBlocks(PadTo64(bits.val),
                                      FeistelCipher_generate_round_keys(k.s, 16), TRUE)))

---------------------------------------------------------------------------
(* vernam.py *)

\* the binary digits of a natural number, as the characters '0' and '1'
RECURSIVE NatBin(_)
NatBin(i) == IF i < 2 THEN <<48 + i>> ELSE NatBin(i \div 2) \o <<48 + (i % 2)>>

\* zeros before the digits d up to the width w
ZeroFill(d, w) == [i \in 1..(w - Len(d)) |-> 48] \o d

\* format(value, '08b'): at least eight characters, the sign '-' among them
Format08b(value) ==
    IF value >= 0 THEN ZeroFill(NatBin(value), 8)
    ELSE <<45>> \o ZeroFill(NatBin(0 - value), 7)

\* VernamCipher._text_to_binary
RECURSIVE VernamCipher_text_to_binary(_)
VernamCipher_text_to_binary(s) ==
    IF Len(s) = 0 THEN <<>>
    ELSE Format08b(Head(s)) \o VernamCipher_text_to_binary(Tail(s))

\* int(c, 2) of eight characters '0' and '1'
BinValue(c) ==
    (c[1] - 48) * 128 + (c[2] - 48) * 64 + (c[3] - 48) * 32 + (c[4] - 48) * 16
        + (c[5] - 48) * 8 + (c[6] - 48) * 4 + (c[7] - 48) * 2 + (c[8] - 48)

\* the values of the complete slices of eight characters of a binary string
BinBytes(binary) ==
    [j \in 1..(Len(binary) \div 8) |-> BinValue(SubSeq(binary, 8 * j - 7, 8 * j))]

\* VernamCipher._binary_to_text
VernamCipher_binary_to_text(binary) == BinBytes(binary)

\* VernamCipher._xor_strings: zip stops at the shorter string
VernamCipher_xor_strings(str1, str2) ==
    [i \in 1..(IF Len(str1) < Len(str2) THEN Len(str1) ELSE Len(str2)) |->
        IF str1[i] # str2[i] THEN 49 ELSE 48]

\* (key * ((n // len(key)) + 1))[:n]
KeyExtended(k, n) == [i \in 1..n |-> k[((i - 1) % Len(k)) + 1]]

RECURSIVE JoinHex(_)
JoinHex(values) ==
    IF Len(values) = 0 THEN <<>> ELSE Format02X(Head(values)) \o JoinHex(Tail(values))

VernamCipher_encrypt(plaintext, k) ==
    IF plaintext.t # "str" \/ k.t \in {"int", "NoneType"} THEN Raise("TypeError")
    ELSE IF k.t = "list" \/ Len(k.s) = 0 THEN Raise("ZeroDivisionError")
    ELSE LET key_extended == KeyExtended(k.s, Len(plaintext.s))
             plain_binary == VernamCipher_text_to_binary(plaintext.s)
             key_binary == VernamCipher_text_to_binary(key_extended)
             encrypted_binary == VernamCipher_xor_strings(plain_binary, key_binary)
         IN Ret(JoinHex(BinBytes(encrypted_binary)))

RECURSIVE JoinBin(_)
JoinBin(values) ==
    IF Len(values) = 0 THEN <<>> ELSE Format08b(Head(values)) \o JoinBin(Tail(values))

VernamCipher_decrypt(ciphertext, k) ==
    IF ciphertext.t # "str" THEN Raise("TypeError")
    ELSE LET pairs == Pairs(ciphertext.s)
             bytes == [j \in 1..Len(pairs) |-> ParseHex(pairs[j])]
             cipher_binary == JoinBin([j \in 1..Len(pairs) |-> bytes[j].val])
             key_length == Len(cipher_binary) \div 8
             key_extended == KeyExtended(k.s, key_length)
             key_binary == VernamCipher_text_to_binary(key_extended)
             decrypted_binary == VernamCipher_xor_strings(cipher_binary, key_binary)
         IN IF \E j \in 1..Len(pairs) : bytes[j].kind = "raise" THEN Raise("ValueError")
            ELSE IF k.t \in {"int", "NoneType"} THEN Raise("TypeError")
            ELSE IF k.t = "list" \/ Len(k.s) = 0 THEN Raise("ZeroDivisionError")
            ELSE Ret(VernamCipher_binary_to_text(decrypted_binary))

---------------------------------------------------------------------------
(* validate_key of the remaining registered classes *)

PlayfairCipher_validate_key(k) ==
    IF ~Truthy(k) \/ k.t # "str" THEN Ret(<<FALSE, "Key is required">>)
    ELSE IF ~\E i \in 1..Len(k.s) : IsAlpha(k.s[i])
    THEN Ret(<<FALSE, "Key must contain at least one letter">>)
    ELSE Ret(<<TRUE, "">>)

VernamCipher_validate_key(k) ==
    IF ~Truthy(k) \/ k.t # "str" THEN Ret(<<FALSE, "Key is required">>)
    ELSE IF Len(k.s) < 1 THEN Ret(<<FALSE, "Key must have at least one character">>)
    ELSE Ret(<<TRUE, "">>)

RailFenceCipher_validate_key(k) ==
    LET i == PyInt(k) IN
    IF i.kind = "raise" THEN Ret(<<FALSE, "Key must be a number">>)
    ELSE IF i.val < 2 THEN Ret(<<FALSE, "Number of rails must be at least 2">>)
    ELSE IF i.val > 10 THEN Ret(<<FALSE, "Number of rails should not exceed 10">>)
    ELSE Ret(<<TRUE, "">>)

ColumnarCipher_validate_key(k) ==
    IF ~Truthy(k) \/ k.t # "str" THEN Ret(<<FALSE, "Key is required">>)
    ELSE IF ~StrIsAlpha(StripSpaces(k.s))
    THEN Ret(<<FALSE, "Key must contain only letters">>)
    ELSE IF Len(StripSpaces(k.s)) < 2
    THEN Ret(<<FALSE, "Key must be at least 2 characters">>)
    ELSE Ret(<<TRUE, "">>)

FeistelCipher_validate_key(k) ==
    IF ~Truthy(k) \/ k.t # "str" THEN Ret(<<FALSE, "Key is required">>)
    ELSE IF Len(k.s) < 1 THEN Ret(<<FALSE, "Key must have at least one character">>)
    ELSE Ret(<<TRUE, "">>)

DESCipher_validate_key(k) ==
    IF ~Truthy(k) \/ k.t # "str" THEN Ret(<<FALSE, "Key is required">>)
    ELSE IF Len(k.s) < 1 THEN Ret(<<FALSE, "Key must have at least one character">>)
    ELSE Ret(<<TRUE, "">>)

AESCipher_validate_key(k) ==
    IF ~Truthy(k) \/ k.t # "str" THEN Ret(<<FALSE, "Key is required">>)
    ELSE IF Len(k.s) < 1 THEN Ret(<<FALSE, "Key must have at least one character">>)
    ELSE Ret(<<TRUE, "">>)

RSACipher_validate_key(k) ==
    IF ~Truthy(k) \/ k.t # "str" THEN Ret(<<FALSE, "Key/password is required">>)
    ELSE IF Len(k.s) < 4 THEN Ret(<<FALSE, "Password should be at least 4 characters">>)
    ELSE Ret(<<TRUE, "">>)

\* HashingCipher.SUPPORTED_ALGORITHMS: 'md5', 'sha1', 'sha256', 'sha512'
SUPPORTED_ALGORITHMS ==
    {<<109, 100, 53>>, <<115, 104, 97, 49>>, <<115, 104, 97, 50, 53, 54>>,
     <<115, 104, 97, 53, 49, 50>>}

HashingCipher_validate_key(k) ==
    IF ~Truthy(k) \/ k.t # "str"
    THEN Ret(<<FALSE, "Algorithm is required (md5, sha1, sha256, sha512)">>)
    ELSE IF Strip(StrLower(k.s)) \notin SUPPORTED_ALGORITHMS
    THEN Ret(<<FALSE, "Unknown algorithm. Use: md5, sha1, sha256, sha512">>)
    ELSE Ret(<<TRUE, "">>)

SHA1Cipher_validate_key(k) == Ret(<<TRUE, "">>)

---------------------------------------------------------------------------
(* __init__.py: the registry, and dispatch on the cipher class *)

CIPHER_REGISTRY ==
    (<<99, 97, 101, 115, 97, 114>> :> "CaesarCipher") @@
    (<<97, 100, 100, 105, 116, 105, 118, 101>> :> "AdditiveCipher") @@
    (<<109, 117, 108, 116, 105, 112, 108, 105, 99, 97, 116, 105, 118, 101>>
        :> "MultiplicativeCipher") @@
    (<<97, 102, 102, 105, 110, 101>> :> "AffineCipher") @@
    (<<118, 105, 103, 101, 110, 101, 114, 101>> :> "VigenereCipher") @@
    (<<104, 105, 108, 108>> :> "HillCipher") @@
    (<<97, 117, 116, 111, 107, 101, 121>> :> "AutokeyCipher") @@
    (<<112, 108, 97, 121, 102, 97, 105, 114>> :> "PlayfairCipher") @@
    (<<111, 116, 112>> :> "OTPCipher") @@
    (<<118, 101, 114, 110, 97, 109>> :> "VernamCipher") @@
    (<<114, 97, 105, 108, 102, 101, 110, 99, 101>> :> "RailFenceCipher") @@
    (<<99, 111, 108, 117, 109, 110, 97, 114>> :> "ColumnarCipher") @@
    (<<102, 101, 105, 115, 116, 101, 108>> :> "FeistelCipher") @@
    (<<100, 101, 115>> :> "DESCipher") @@
    (<<97, 101, 115>> :> "AESCipher") @@
    (<<114, 115, 97>> :> "RSACipher") @@
    (<<104, 97, 115, 104, 105, 110, 103>> :> "HashingCipher") @@
    (<<115, 104, 97, 49>> :> "SHA1Cipher")

\* the registered classes
Registered == {CIPHER_REGISTRY[n] : n \in DOMAIN CIPHER_REGISTRY}

\* a variant that looks the name up as it is written
get_cipher_AsWritten(name) ==
    IF name.t # "str" THEN Raise("AttributeError")
    ELSE IF name.s \in DOMAIN registry
    THEN Ret(registry[name.s])
    ELSE Ret("None")

\* get_cipher: name.lower() needs a str; dict.get gives None on a miss
get_cipher(name) ==
    IF name.t # "str" THEN Raise("AttributeError")
    ELSE IF StrLower(name.s) \in DOMAIN registry
    THEN Ret(registry[StrLower(name.s)])
    ELSE Ret("None")

\* the name, description, key_type and key_hint attributes of a class; every
\* registered class defines the four itself
ClassAttributes(c) ==
    CASE c = "CaesarCipher" ->
        [name |-> "Caesar Cipher",
         description |-> "The Caesar cipher shifts each letter in the plaintext by a fixed number of positions in the alphabet. Named after Julius Caesar who used it for military communications. With only 26 possible keys, it's easily broken by brute force.",
         key_type |-> "number",
         key_hint |-> "Enter shift value (1-25)"]
      [] c = "AdditiveCipher" ->
        [name |-> "Additive Cipher",
         description |-> "The Additive cipher (also known as shift cipher) encrypts by adding a constant key value to each letter's position modulo 26. It's mathematically equivalent to Caesar cipher but expressed as modular addition.",
         key_type |-> "number",
         key_hint |-> "Enter additive key (0-25)"]
      [] c = "MultiplicativeCipher" ->
        [name |-> "Multiplicative Cipher",
         description |-> "The Multiplicative cipher encrypts by multiplying each letter's position by a key value modulo 26. The key must be coprime with 26 to allow decryption. It's a special case of the Affine cipher where b=0.",
         key_type |-> "number",
         key_hint |-> "Enter multiplier (coprime with 26: 1,3,5,7,9,11,15,17,19,21,23,25)"]
      [] c = "AffineCipher" ->
        [name |-> "Affine Cipher",
         description |-> "The Affine cipher encrypts using the formula E(x) = (ax + b) mod 26, where 'a' and 'b' are the keys. The value 'a' must be coprime with 26 (valid values: 1, 3, 5, 7, 9, 11, 15, 17, 19, 21, 23, 25). It combines the multiplicative and Caesar ciphers.",
         key_type |-> "text",
         key_hint |-> "Enter 'a b' (e.g., '5 8') where a is coprime with 26"]
      [] c = "VigenereCipher" ->
        [name |-> "Vigenère Cipher",
         description |-> "The Vigenère cipher uses a keyword to shift letters by varying amounts. Each letter of the key determines the shift for the corresponding plaintext letter. It was considered unbreakable for 300 years until Kasiski's method was discovered in 1863.",
         key_type |-> "text",
         key_hint |-> "Enter keyword (letters only)"]
      [] c = "HillCipher" ->
        [name |-> "Hill Cipher",
         description |-> "The Hill cipher uses linear algebra (matrix multiplication) to encrypt blocks of letters. The key is a square matrix that must be invertible modulo 26. Invented by Lester S. Hill in 1929.",
         key_type |-> "matrix",
         key_hint |-> "Enter 4 numbers for 2x2 matrix (e.g., '3 3 2 5')"]
      [] c = "AutokeyCipher" ->
        [name |-> "Autokey Cipher",
         description |-> "The Autokey cipher is a variant of Vigenère that uses the plaintext itself to extend the key. After the initial keyword is exhausted, the plaintext letters become the key. This eliminates the repeating key weakness.",
         key_type |-> "text",
         key_hint |-> "Enter primer keyword (letters only)"]
      [] c = "PlayfairCipher" ->
        [name |-> "Playfair Cipher",
         description |-> "The Playfair cipher encrypts pairs of letters (digraphs) using a 5x5 key square. It was invented by Charles Wheatstone in 1854 but named after Lord Playfair who promoted its use. It was used by the British in WWI and by the Australians in WWII.",
         key_type |-> "text",
         key_hint |-> "Enter keyword to generate 5x5 grid"]
      [] c = "OTPCipher" ->
        [name |-> "One-Time Pad",
         description |-> "The One-Time Pad is the only cipher proven to be theoretically unbreakable when used correctly. The key must be truly random, at least as long as the message, and never reused. Each key letter shifts the corresponding plaintext.",
         key_type |-> "text",
         key_hint |-> "Enter key (must be at least as long as message letters)"]
      [] c = "VernamCipher" ->
        [name |-> "Vernam Cipher",
         description |-> "The Vernam cipher, invented by Gilbert Vernam in 1917, uses XOR operation between plaintext and key bits. When used with a truly random, never-reused key of the same length as the message, it becomes a One-Time Pad. It was used for teleprinter encryption.",
         key_type |-> "text",
         key_hint |-> "Enter key (letters, will be converted to binary)"]
      [] c = "RailFenceCipher" ->
        [name |-> "Rail Fence Cipher",
         description |-> "The Rail Fence cipher writes the message in a zigzag pattern across multiple 'rails' (rows), then reads off each rail in order. It's a simple transposition cipher that rearranges letters without substitution. Easy to break but historically used for quick message obfuscation.",
         key_type |-> "number",
         key_hint |-> "Enter number of rails (2-10)"]
      [] c = "ColumnarCipher" ->
        [name |-> "Columnar Transposition",
         description |-> "The Columnar Transposition cipher writes the plaintext in rows under a keyword, then reads off columns in alphabetical order of the key letters. It was widely used in WWI and WWII, often combined with other ciphers for additional security.",
         key_type |-> "text",
         key_hint |-> "Enter keyword (determines column order)"]
      [] c = "FeistelCipher" ->
        [name |-> "Feistel Cipher",
         description |-> "The Feistel cipher is a symmetric structure used in many block ciphers including DES. It splits data into two halves and processes them through multiple rounds. The same structure is used for both encryption and decryption.",
         key_type |-> "text",
         key_hint |-> "Enter key (will be used to generate round keys)"]
      [] c = "DESCipher" ->
        [name |-> "DES",
         description |-> "DES (Data Encryption Standard) is a symmetric block cipher that was adopted as a federal standard in 1977. It uses a 56-bit key and encrypts 64-bit blocks. While now considered insecure, it's important historically.",
         key_type |-> "text",
         key_hint |-> "Enter exactly 8 characters for key"]
      [] c = "AESCipher" ->
        [name |-> "AES",
         description |-> "AES (Advanced Encryption Standard) is the current standard for symmetric encryption, adopted in 2001. It supports key sizes of 128, 192, or 256 bits and encrypts 128-bit blocks. It's widely used in secure communications.",
         key_type |-> "text",
         key_hint |-> "Enter key (16, 24, or 32 chars for AES-128/192/256)"]
      [] c = "RSACipher" ->
        [name |-> "RSA",
         description |-> "RSA is an asymmetric cryptosystem using public/private key pairs. For this demo, enter a password to generate a deterministic key pair. In real applications, keys are generated separately and stored securely.",
         key_type |-> "text",
         key_hint |-> "Enter password (generates key pair for demo)"]
      [] c = "HashingCipher" ->
        [name |-> "Hashing",
         description |-> "Cryptographic hash functions produce a fixed-size digest from any input. They are one-way functions - you cannot recover the original from the hash. Select algorithm: md5, sha1, sha256, sha512.",
         key_type |-> "text",
         key_hint |-> "Enter algorithm: md5, sha1, sha256, or sha512"]
      [] c = "SHA1Cipher" ->
        [name |-> "SHA-1",
         description |-> "SHA-1 (Secure Hash Algorithm 1) produces a 160-bit (20-byte) hash value. It was designed by the NSA. While now considered cryptographically broken for collision resistance, it's still widely used for non-security purposes.",
         key_type |-> "text",
         key_hint |-> "No key needed (enter anything)"]

\* get_all_ciphers: a new dict, one entry for each item of the registry
get_all_ciphers == [n \in DOMAIN registry |-> ClassAttributes(registry[n])]

validate_key(c, k) ==
    CASE c = "CaesarCipher" -> CaesarCipher_validate_key(k)
      [] c = "AdditiveCipher" -> AdditiveCipher_validate_key(k)
      [] c = "MultiplicativeCipher" -> MultiplicativeCipher_validate_key(k)
      [] c = "AffineCipher" -> AffineCipher_validate_key(k)
      [] c = "VigenereCipher" -> VigenereCipher_validate_key(k)
      [] c = "HillCipher" -> HillCipher_validate_key(k)
      [] c = "AutokeyCipher" -> AutokeyCipher_validate_key(k)
      [] c = "OTPCipher" -> OTPCipher_validate_key(k)
      [] c = "PlayfairCipher" -> PlayfairCipher_validate_key(k)
      [] c = "VernamCipher" -> VernamCipher_validate_key(k)
      [] c = "RailFenceCipher" -> RailFenceCipher_validate_key(k)
      [] c = "ColumnarCipher" -> ColumnarCipher_validate_key(k)
      [] c = "FeistelCipher" -> FeistelCipher_validate_key(k)
      [] c = "DESCipher" -> DESCipher_validate_key(k)
      [] c = "AESCipher" -> AESCipher_validate_key(k)
      [] c = "RSACipher" -> RSACipher_validate_key(k)
      [] c = "HashingCipher" -> HashingCipher_validate_key(k)
      [] c = "SHA1Cipher" -> SHA1Cipher_validate_key(k)

\* the classes whose encrypt and decrypt are modelled for keys and texts of
\* every type
Transforming ==
    {"CaesarCipher", "AdditiveCipher", "MultiplicativeCipher", "AffineCipher",
     "VigenereCipher", "HillCipher", "AutokeyCipher", "OTPCipher"}

encrypt(c, plaintext, k) ==
    CASE c = "CaesarCipher" -> CaesarCipher_encrypt(plaintext, k)
      [] c = "AdditiveCipher" -> AdditiveCipher_encrypt(plaintext, k)
      [] c = "MultiplicativeCipher" -> MultiplicativeCipher_encrypt(plaintext, k)
      [] c = "AffineCipher" -> AffineCipher_encrypt(plaintext, k)
      [] c = "VigenereCipher" -> VigenereCipher_encrypt(plaintext, k)
      [] c = "HillCipher" -> HillCipher_encrypt(plaintext, k)
      [] c = "AutokeyCipher" -> AutokeyCipher_encrypt(plaintext, k)
      [] c = "OTPCipher" -> OTPCipher_encrypt(plaintext, k)
      [] c = "PlayfairCipher" -> PlayfairCipher_encrypt(plaintext, k)
      [] c = "RailFenceCipher" -> RailFenceCipher_encrypt(plaintext, k)
      [] c = "ColumnarCipher" -> ColumnarCipher_encrypt(plaintext, k)
      [] c = "FeistelCipher" -> FeistelCipher_encrypt(plaintext, k)
      [] c = "VernamCipher" -> VernamCipher_encrypt(plaintext, k)

decrypt(c, ciphertext, k) ==
    CASE c = "CaesarCipher" -> CaesarCipher_decrypt(ciphertext, k)
      [] c = "AdditiveCipher" -> AdditiveCipher_decrypt(ciphertext, k)
      [] c = "MultiplicativeCipher" -> MultiplicativeCipher_decrypt(ciphertext, k)
      [] c = "AffineCipher" -> AffineCipher_decrypt(ciphertext, k)
      [] c = "VigenereCipher" -> VigenereCipher_decrypt(ciphertext, k)
      [] c = "HillCipher" -> HillCipher_decrypt(ciphertext, k)
      [] c = "AutokeyCipher" -> AutokeyCipher_decrypt(ciphertext, k)
      [] c = "OTPCipher" -> OTPCipher_decrypt(ciphertext, k)
      [] c = "PlayfairCipher" -> PlayfairCipher_decrypt(ciphertext, k)
      [] c = "RailFenceCipher" -> RailFenceCipher_decrypt(ciphertext, k)
      [] c = "ColumnarCipher" -> ColumnarCipher_decrypt(ciphertext, k)
      [] c = "FeistelCipher" -> FeistelCipher_decrypt(ciphertext, k)
      [] c = "VernamCipher" -> VernamCipher_decrypt(ciphertext, k)

---------------------------------------------------------------------------
(* get_example: the plaintext, key and result of the worked example of a   *)
(* class; the steps are text for display                                   *)

\* BaseCipher.get_example, inherited by the classes that define none:
\* 'HELLO', 'KEY', 'ENCRYPTED'
BaseCipher_get_example ==
    [plaintext |-> <<72, 69, 76, 76, 79>>, key |-> <<75, 69, 89>>,
     result |-> <<69, 78, 67, 82, 89, 80, 84, 69, 68>>]

\* 'HELLO', '3', 'KHOOR'
CaesarCipher_get_example ==
    [plaintext |-> <<72, 69, 76, 76, 79>>,
     key |-> <<51>>,
     result |-> <<75, 72, 79, 79, 82>>]

\* 'HELLO', '7', 'XCZZU'
MultiplicativeCipher_get_example ==
    [plaintext |-> <<72, 69, 76, 76, 79>>,
     key |-> <<55>>,
     result |-> <<88, 67, 90, 90, 85>>]

\* 'HELLO', '5 8', 'RCLLA'
AffineCipher_get_example ==
    [plaintext |-> <<72, 69, 76, 76, 79>>,
     key |-> <<53, 32, 56>>,
     result |-> <<82, 67, 76, 76, 65>>]

\* 'HELLO', 'KEY', 'RIJVS'
VigenereCipher_get_example ==
    [plaintext |-> <<72, 69, 76, 76, 79>>,
     key |-> <<75, 69, 89>>,
     result |-> <<82, 73, 74, 86, 83>>]

\* 'HELLO', 'KEYWORD', 'KHSZOY'
PlayfairCipher_get_example ==
    [plaintext |-> <<72, 69, 76, 76, 79>>,
     key |-> <<75, 69, 89, 87, 79, 82, 68>>,
     result |-> <<75, 72, 83, 90, 79, 89>>]

\* 'HI', 'K', '0302'
VernamCipher_get_example ==
    [plaintext |-> <<72, 73>>,
     key |-> <<75>>,
     result |-> <<48, 51, 48, 50>>]

\* 'HELLO WORLD', '3', 'HOLELWRDLO'
RailFenceCipher_get_example ==
    [plaintext |-> <<72, 69, 76, 76, 79, 32, 87, 79, 82, 76, 68>>,
     key |-> <<51>>,
     result |-> <<72, 79, 76, 69, 76, 87, 82, 68, 76, 79>>]

\* 'HELLO WORLD', 'KEY', 'EORXHLODLWLX'
ColumnarCipher_get_example ==
    [plaintext |-> <<72, 69, 76, 76, 79, 32, 87, 79, 82, 76, 68>>,
     key |-> <<75, 69, 89>>,
     result |-> <<69, 79, 82, 88, 72, 76, 79, 68, 76, 87, 76, 88>>]

\* the classes that define get_example themselves
Documented ==
    {"CaesarCipher",
     "MultiplicativeCipher",
     "AffineCipher",
     "VigenereCipher",
     "PlayfairCipher",
     "VernamCipher",
     "RailFenceCipher",
     "ColumnarCipher"}

get_example(c) ==
    CASE c = "CaesarCipher" -> CaesarCipher_get_example
      [] c = "MultiplicativeCipher" -> MultiplicativeCipher_get_example
      [] c = "AffineCipher" -> AffineCipher_get_example
      [] c = "VigenereCipher" -> VigenereCipher_get_example
      [] c = "PlayfairCipher" -> PlayfairCipher_get_example
      [] c = "VernamCipher" -> VernamCipher_get_example
      [] c = "RailFenceCipher" -> RailFenceCipher_get_example
      [] c = "ColumnarCipher" -> ColumnarCipher_get_example
      [] OTHER -> BaseCipher_get_example

---------------------------------------------------------------------------
(* Direct calls on a cipher object: validate_key(key), encrypt(text, key), *)
(* then decrypt of the ciphertext; or decrypt of the given text itself.    *)
(* encrypt and decrypt do not read the verdict of validate_key.            *)

\* all strings over the characters chars of length at most n
Strings(chars, n) == UNION {[1..m -> chars] : m \in 0..n}

\* the classes that have a _mod_inverse helper
InvClasses == {"HillCipher", "AffineCipher", "MultiplicativeCipher"}

\* the random generator before any random.seed call of the package
Unseeded == [seed |-> <<>>, drawn |-> 0]

\* the state of the process outside the call under study: the registry as the
\* module builds it, no lookup or listing made, no RSA key generated, the
\* random generator not seeded, no RSA call in progress
InitProcess ==
    /\ registry = CIPHER_REGISTRY
    /\ found = NotCalled
    /\ listing = NotCalled
    /\ key_cache = <<>>
    /\ rng = Unseeded
    /\ threads = <<>>
    /\ loop = NoLoop

ValidateKey ==
    /\ pc = "new"
    /\ vk' = validate_key(cipher, key)
    /\ pc' = "validated"
    /\ UNCHANGED <<cipher, key, text, ct, pt, inv, made_from, request, response, calls,
                 registry, found, listing, key_cache, rng, threads, loop>>

Encrypt ==
    /\ pc = "validated"
    /\ ct' = encrypt(cipher, text, key)
    /\ pc' = "encrypted"
    /\ UNCHANGED <<cipher, key, text, vk, pt, inv, made_from, request, response, calls,
                 registry, found, listing, key_cache, rng, threads, loop>>

Decrypt ==
    /\ pc = "encrypted"
    /\ ct.kind = "return"
    /\ pt' = decrypt(cipher, StrV(ct.val), key)
    /\ pc' = "decrypted"
    /\ UNCHANGED <<cipher, key, text, vk, ct, inv, made_from, request, response, calls,
                 registry, found, listing, key_cache, rng, threads, loop>>

DecryptText ==
    /\ pc = "validated"
    /\ pt' = decrypt(cipher, text, key)
    /\ pc' = "decrypted_text"
    /\ UNCHANGED <<cipher, key, text, vk, ct, inv, made_from, request, response, calls,
                 registry, found, listing, key_cache, rng, threads, loop>>

Next == ValidateKey \/ Encrypt \/ Decrypt \/ DecryptText

InitCall(ciphers, keys, texts) ==
    /\ cipher \in ciphers
    /\ key \in keys
    /\ text \in texts
    /\ pc = "new"
    /\ vk = NotCalled
    /\ ct = NotCalled
    /\ pt = NotCalled
    /\ inv = [c \in InvClasses |-> NotCalled]
    /\ made_from = <<>>
    /\ request = NoRequest
    /\ response = NoResponse
    /\ calls = <<>>
    /\ InitProcess

\* 'HELLO', 'hello', 'Hello World': the texts of the repository's tests
ExampleTexts ==
    {<<72, 69, 76, 76, 79>>, <<104, 101, 108, 108, 111>>,
     <<72, 101, 108, 108, 111, 32, 87, 111, 114, 108, 100>>}

\* 'A', 'Y', 'b', 'z', ' '
ShiftChars == {65, 89, 98, 122, 32}

\* Caesar and Additive with the integer keys around the valid range, and '3'
InitShift ==
    InitCall({"CaesarCipher", "AdditiveCipher"},
             {IntV(i) : i \in -1..27} \cup {StrV(<<51>>)},
             {StrV(s) : s \in Strings(ShiftChars, MaxLen) \cup ExampleTexts})

SpecShift == InitShift /\ [][Next]_vars

\* 'A', 'z', ' ' for the texts; 'K', 'b', ' ' for the keys; and the key 'KEY'
PolyChars == {65, 122, 32}
PolyKeyChars == {75, 98, 32}

\* Vigenere, Autokey and One-Time Pad with short keys, valid and not
InitPoly ==
    InitCall({"VigenereCipher", "AutokeyCipher", "OTPCipher"},
             {StrV(s) : s \in Strings(PolyKeyChars, MaxKeyLen) \cup {<<75, 69, 89>>}},
             {StrV(s) : s \in Strings(PolyChars, MaxLen) \cup ExampleTexts})

SpecPoly == InitPoly /\ [][Next]_vars

---------------------------------------------------------------------------
(* Properties of the shift ciphers *)

\* the key is one of the valid Caesar shifts 1..25
CaesarKeyInRange == key.t = "int" /\ key.n \in 1..25

\* C1: for any text (mixed case, spaces included) and any shift k in 1..25,
\* Caesar decrypt(encrypt(text, k), k) gives back the original text.
C1_CaesarRoundTrip ==
    (cipher = "CaesarCipher" /\ pc = "decrypted" /\ CaesarKeyInRange)
        => pt = Ret(text.s)

\* out has the length of s, a letter of out wherever s has a letter of the same
\* case, and the character of s wherever s has no letter
SameCase(s, out) ==
    /\ Len(out) = Len(s)
    /\ \A i \in 1..Len(s) :
          /\ IsUpper(s[i]) => IsUpper(out[i])
          /\ IsLower(s[i]) => IsLower(out[i])
          /\ ~IsAlpha(s[i]) => out[i] = s[i]

\* C2: Caesar encrypt keeps the case of every character and leaves every
\* non-letter unchanged; encrypt('hello', 3) is 'khoor' and
\* encrypt('Hello World', 3) is 'Khoor Zruog'.
C2_CaesarEncryptKeepsCase ==
    (cipher = "CaesarCipher" /\ pc = "encrypted" /\ CaesarKeyInRange)
        => /\ ct.kind = "return"
           /\ SameCase(text.s, ct.val)
           /\ (text.s = <<104, 101, 108, 108, 111>> /\ key.n = 3)
                 => ct.val = <<107, 104, 111, 111, 114>>
           /\ (text.s = <<72, 101, 108, 108, 111, 32, 87, 111, 114, 108, 100>>
                  /\ key.n = 3)
                 => ct.val = <<75, 104, 111, 111, 114, 32, 90, 114, 117, 111, 103>>

---------------------------------------------------------------------------
(* Properties of Vigenere, Autokey and One-Time Pad *)

\* validate_key accepted the key
KeyAccepted == vk.kind = "return" /\ vk.val[1] = TRUE

\* C3: Vigenere, Autokey and One-Time Pad keep the case of the input in
\* encrypt and in decrypt, and the round trip of a mixed-case text gives back
\* the original mixed-case text.
C3_PolyKeepCase ==
    (cipher \in {"VigenereCipher", "AutokeyCipher", "OTPCipher"} /\ KeyAccepted)
        => /\ (pc = "encrypted" /\ ct.kind = "return") => SameCase(text.s, ct.val)
           /\ (pc = "decrypted_text" /\ pt.kind = "return")
                 => SameCase(text.s, pt.val)
           /\ (pc = "decrypted" /\ pt.kind = "return") => pt.val = text.s

\* what the code does keep: Autokey and One-Time Pad alone satisfy C3
AutokeyOTPKeepCase ==
    (cipher \in {"AutokeyCipher", "OTPCipher"} /\ KeyAccepted)
        => /\ (pc = "encrypted" /\ ct.kind = "return") => SameCase(text.s, ct.val)
           /\ (pc = "decrypted_text" /\ pt.kind = "return")
                 => SameCase(text.s, pt.val)
           /\ pc = "decrypted" => pt = Ret(text.s)

---------------------------------------------------------------------------
(* validate_key of every registered class on keys of every type *)

\* '', ' ', '3', '0', '26', '-3', 'abc', 'KEY', 'K1', '5 8', '2 4', 'a b',
\* '3 3 2 5', '2 4 6 8', '1 2 3', 'md5'
KeyStrings ==
    {<<>>, <<32>>, <<51>>, <<48>>, <<50, 54>>, <<45, 51>>, <<97, 98, 99>>,
     <<75, 69, 89>>, <<75, 49>>, <<53, 32, 56>>, <<50, 32, 52>>, <<97, 32, 98>>,
     <<51, 32, 51, 32, 50, 32, 53>>, <<50, 32, 52, 32, 54, 32, 56>>,
     <<49, 32, 50, 32, 51>>, <<109, 100, 53>>}

\* keys of the types a JSON body can carry: str, int, null, list
AnyKeys ==
    {StrV(s) : s \in KeyStrings} \cup {IntV(i) : i \in {-1, 0, 3, 5, 30}}
        \cup {NoneV, ListV}

InitValidate == InitCall(Registered, AnyKeys, {StrV(<<>>)})

SpecValidate == InitValidate /\ [][ValidateKey]_vars

\* C4: for every registered cipher class and every key of any type,
\* validate_key returns a (valid, message) pair and never raises.
C4_ValidateKeyNeverRaises ==
    pc = "validated"
        => /\ vk.kind = "return"
           /\ vk.val[1] \in BOOLEAN

---------------------------------------------------------------------------
(* encrypt and decrypt called directly, whatever validate_key said *)

\* '', 'A', 'ab', 'A b', 'ABC', 'a1'
DirectTexts ==
    {<<>>, <<65>>, <<97, 98>>, <<65, 32, 98>>, <<65, 66, 67>>, <<97, 49>>}

InitDirect == InitCall(Transforming, AnyKeys, {StrV(s) : s \in DirectTexts})

SpecDirect == InitDirect /\ [][Next]_vars

\* the call returned a string or raised ValueError
StringOrValueError(o) ==
    \/ o.kind = "return"
    \/ o.kind = "raise" /\ o.exc = "ValueError"

\* C7: encrypt and decrypt of a classical cipher, called directly with a
\* malformed input (a key that validate_key rejects, a malformed text), return
\* a string or raise ValueError, and raise nothing else.
C7_TransformsRaiseOnlyValueError ==
    (key.t = "str" /\ text.t = "str")
        => /\ pc = "encrypted" => StringOrValueError(ct)
           /\ pc \in {"decrypted", "decrypted_text"} => StringOrValueError(pt)

---------------------------------------------------------------------------
(* Hill: keys written from four integers, and keys that are not *)

\* the matrix entries: small ones of both signs, and one above the modulus
HillEntries == ((0 - MaxHillEntry)..MaxHillEntry) \cup {M + 1}

\* the key string 'a b c d' of four integers, written as str(int) writes them
HillKey(m) ==
    PyStr(IntV(m[1])) \o <<32>> \o PyStr(IntV(m[2])) \o <<32>>
        \o PyStr(IntV(m[3])) \o <<32>> \o PyStr(IntV(m[4]))

\* '', '1 2 3', '1 2 3 4 5', 'a b c d', '3 3 2 x', and keys that are no str
MalformedHillKeys ==
    {StrV(<<>>), StrV(<<49, 32, 50, 32, 51>>),
     StrV(<<49, 32, 50, 32, 51, 32, 52, 32, 53>>),
     StrV(<<97, 32, 98, 32, 99, 32, 100>>), StrV(<<51, 32, 51, 32, 50, 32, 120>>),
     IntV(5), NoneV, ListV}

\* 'B', 'Z' for the generated texts; and the texts 'HELP', 'Hi', 'a b'
HillChars == {66, 90}
HillTexts ==
    Strings(HillChars, MaxHillLen)
        \cup {<<72, 69, 76, 80>>, <<72, 105>>, <<97, 32, 98>>}

InitHill ==
    /\ cipher = "HillCipher"
    /\ made_from \in [1..4 -> HillEntries] \cup {<<>>}
    /\ key \in IF made_from = <<>> THEN MalformedHillKeys
                                   ELSE {StrV(HillKey(made_from))}
    /\ text \in {StrV(s) : s \in HillTexts}
    /\ pc = "new"
    /\ vk = NotCalled
    /\ ct = NotCalled
    /\ pt = NotCalled
    /\ inv = [c \in InvClasses |-> NotCalled]
    /\ request = NoRequest
    /\ response = NoResponse
    /\ calls = <<>>
    /\ InitProcess

SpecHill == InitHill /\ [][Next]_vars

\* text is a run of upper-case letters of even length
EvenUpper(s) == Len(s) % 2 = 0 /\ \A i \in 1..Len(s) : IsUpper(s[i])

\* the product of two 2x2 matrices mod 26
MatMul(a, b) ==
    [i \in 1..2 |-> [j \in 1..2 |-> (a[i][1] * b[1][j] + a[i][2] * b[2][j]) % M]]

Identity == << <<1, 0>>, <<0, 1>> >>

Coprime26(d) == \A g \in 2..M : ~(d % g = 0 /\ M % g = 0)

\* the determinant of the four numbers the key was written from, mod 26
DetOfKey == (made_from[1] * made_from[4] - made_from[2] * made_from[3]) % M

\* C9: Hill validate_key accepts exactly the keys of four space-separated
\* integers whose determinant mod 26 is non-zero and coprime with 26, and
\* decrypt inverts every accepted key without error.
C9_HillValidateKey ==
    pc # "new"
        => /\ vk.kind = "return"
           /\ KeyAccepted <=> (made_from # <<>> /\ DetOfKey # 0 /\ Coprime26(DetOfKey))
           /\ (KeyAccepted /\ pc \in {"decrypted", "decrypted_text"})
                 => pt.kind = "return"

\* accepted keys were decrypted with, and keys of every rejected kind were seen
C9_Witness ==
    /\ pc = "decrypted_text" /\ KeyAccepted /\ pt.kind = "return" /\ Len(pt.val) > 0
    /\ made_from # <<>> /\ DetOfKey \notin {1, M - 1}

C9_WitnessRejected ==
    /\ pc = "decrypted_text" /\ ~KeyAccepted /\ pt.kind = "raise"
    /\ made_from # <<>> /\ DetOfKey # 0 /\ DetOfKey % 2 = 0

---------------------------------------------------------------------------
(* The three _mod_inverse helpers on one argument *)

HillModInverse ==
    /\ inv["HillCipher"] = NotCalled
    /\ inv' = [inv EXCEPT !["HillCipher"] = HillCipher_mod_inverse(key.n)]
    /\ UNCHANGED <<cipher, key, text, pc, vk, ct, pt, made_from, request, response, calls,
                 registry, found, listing, key_cache, rng, threads, loop>>

AffineModInverse ==
    /\ inv["AffineCipher"] = NotCalled
    /\ inv' = [inv EXCEPT !["AffineCipher"] = AffineCipher_mod_inverse(key.n, M)]
    /\ UNCHANGED <<cipher, key, text, pc, vk, ct, pt, made_from, request, response, calls,
                 registry, found, listing, key_cache, rng, threads, loop>>

MultiplicativeModInverse ==
    /\ inv["MultiplicativeCipher"] = NotCalled
    /\ inv' = [inv EXCEPT !["MultiplicativeCipher"] =
                              MultiplicativeCipher_mod_inverse(key.n, M)]
    /\ UNCHANGED <<cipher, key, text, pc, vk, ct, pt, made_from, request, response, calls,
                 registry, found, listing, key_cache, rng, threads, loop>>

NextModInv == HillModInverse \/ AffineModInverse \/ MultiplicativeModInverse

InitModInv ==
    InitCall({"none"}, {IntV(a) : a \in (0 - MaxA)..MaxA}, {StrV(<<>>)})

SpecModInv == InitModInv /\ [][NextModInv]_vars

\* C10: a _mod_inverse helper returns the one x in [0, 26) with a * x = 1 mod 26
\* when gcd(a, 26) = 1 and raises otherwise; and the Hill table agrees with the
\* brute-force search of Affine and Multiplicative for every a, negative a and
\* a >= 26 included.
C10_ModInverse ==
    \A c \in InvClasses :
       inv[c] # NotCalled
          => /\ Coprime26(key.n)
                  => /\ inv[c].kind = "return"
                     /\ inv[c].val \in 0..(M - 1)
                     /\ (key.n * inv[c].val) % M = 1
                     /\ \A y \in 0..(M - 1) : (key.n * y) % M = 1 => y = inv[c].val
             /\ ~Coprime26(key.n) => inv[c] = Raise("ValueError")
             /\ \A d \in InvClasses : inv[d] # NotCalled => inv[d] = inv[c]

\* the three helpers returned the same inverse of an a >= 26
C10_Witness ==
    /\ key.n > M
    /\ \A c \in InvClasses : inv[c].kind = "return" /\ inv[c].val # 1
    /\ inv["HillCipher"] = inv["AffineCipher"]

\* and of a negative a; and all raised on an a that has no inverse
C10_WitnessNegative ==
    /\ key.n < 0
    /\ \A c \in InvClasses : inv[c].kind = "return" /\ inv[c].val # 1

C10_WitnessNoInverse ==
    /\ key.n < 0
    /\ \A c \in InvClasses : inv[c] = Raise("ValueError")

---------------------------------------------------------------------------
(* views.py: the encrypt and decrypt views, one step per call they make *)

\* JsonResponse({'result': result, ...}) and JsonResponse({'error': msg}, status)
JsonResult(result) ==
    [status |-> 200, content_type |-> "application/json", field |-> "result",
     result |-> result, error |-> ""]
JsonError(msg, status) ==
    [status |-> status, content_type |-> "application/json", field |-> "error",
     result |-> <<>>, error |-> msg]

\* the answer of require_http_methods to another method: no JSON
HttpResponseNotAllowed ==
    [status |-> 405, content_type |-> "text/html", field |-> "none",
     result |-> <<>>, error |-> ""]

\* the exceptions that are ValueError or a subclass of it
ValueErrors == {"ValueError", "JSONDecodeError", "UnicodeDecodeError"}

\* the except clauses, in their order
ExceptResponse(view, exc) ==
    IF exc = "JSONDecodeError" THEN JsonError("Invalid JSON", 400)
    ELSE IF exc \in ValueErrors THEN JsonError("{str(e)}", 400)
    ELSE IF view = "encrypt" THEN JsonError("Encryption failed: {str(e)}", 500)
    ELSE JsonError("Decryption failed: {str(e)}", 500)

\* dict.get(key, default)
Get(v, default) == IF v = Absent THEN default ELSE v

\* the decorator: the view body runs for POST only
RequireHttpMethods ==
    /\ pc = "received"
    /\ IF request.method = "POST"
       THEN pc' = "loading" /\ response' = response
       ELSE pc' = "responded" /\ response' = HttpResponseNotAllowed
    /\ UNCHANGED <<cipher, key, text, vk, ct, pt, inv, made_from, request, calls,
                 registry, found, listing, key_cache, rng, threads, loop>>

\* json.loads(request.body), the three data.get, and "if not cipher_name"
LoadBody ==
    /\ pc = "loading"
    /\ LET body == request.body
           cipher_name == Get(body.cipher, NoneV)
       IN IF body.json = "invalid"
          THEN /\ response' = ExceptResponse(request.view, "JSONDecodeError")
               /\ pc' = "responded"
               /\ UNCHANGED <<key, text,
                 registry, found, listing, key_cache, rng, threads, loop>>
          ELSE IF body.json # "object"
          THEN /\ response' = ExceptResponse(request.view, "AttributeError")
               /\ pc' = "responded"
               /\ UNCHANGED <<key, text,
                 registry, found, listing, key_cache, rng, threads, loop>>
          ELSE /\ text' = Get(IF request.view = "encrypt" THEN body.plaintext
                                                         ELSE body.ciphertext,
                              StrV(<<>>))
               /\ key' = Get(body.key, StrV(<<>>))
               /\ IF ~Truthy(cipher_name)
                  THEN /\ response' = JsonError("Cipher not specified", 400)
                       /\ pc' = "responded"
                  ELSE /\ response' = response
                       /\ pc' = "lookup"
    /\ UNCHANGED <<cipher, vk, ct, pt, inv, made_from, request, calls,
                 registry, found, listing, key_cache, rng, threads, loop>>

\* cipher_class = get_cipher(cipher_name), and "if not cipher_class"
GetCipher ==
    /\ pc = "lookup"
    /\ calls' = Append(calls, "get_cipher")
    /\ LET cipher_class == get_cipher(request.body.cipher)
       IN IF cipher_class.kind = "raise"
          THEN /\ response' = ExceptResponse(request.view, cipher_class.exc)
               /\ pc' = "responded"
               /\ cipher' = cipher
          ELSE IF cipher_class.val = "None"
          THEN /\ response' = JsonError("Unknown cipher: {cipher_name}", 400)
               /\ pc' = "responded"
               /\ cipher' = cipher
          ELSE /\ response' = response
               /\ pc' = "validate"
               /\ cipher' = cipher_class.val
    /\ UNCHANGED <<key, text, vk, ct, pt, inv, made_from, request,
                 registry, found, listing, key_cache, rng, threads, loop>>

\* faulty variant of the validation step: the verdict is not looked at
ViewValidateKey_IgnoresVerdict ==
    /\ pc = "validate"
    /\ calls' = Append(calls, "validate_key")
    /\ vk' = validate_key(cipher, key)
    /\ IF vk'.kind = "raise"
       THEN response' = ExceptResponse(request.view, vk'.exc) /\ pc' = "responded"
       ELSE response' = response /\ pc' = "transform"
    /\ UNCHANGED <<cipher, key, text, ct, pt, inv, made_from, request,
                 registry, found, listing, key_cache, rng, threads, loop>>

\* is_valid, error_msg = cipher_class.validate_key(key), and "if not is_valid"
ViewValidateKey ==
    /\ pc = "validate"
    /\ calls' = Append(calls, "validate_key")
    /\ vk' = validate_key(cipher, key)
    /\ IF vk'.kind = "raise"
       THEN response' = ExceptResponse(request.view, vk'.exc) /\ pc' = "responded"
       ELSE IF ~vk'.val[1]
       THEN response' = JsonError(vk'.val[2], 400) /\ pc' = "responded"
       ELSE response' = response /\ pc' = "transform"
    /\ UNCHANGED <<cipher, key, text, ct, pt, inv, made_from, request,
                 registry, found, listing, key_cache, rng, threads, loop>>

\* the ways encrypt or decrypt of a class outside Transforming can end, as far
\* as the view tells them apart: a string, a ValueError, another exception
OtherOutcomes == {Ret(<<>>), Raise("ValueError"), Raise("Exception")}

\* result = cipher.encrypt(plaintext, key) or cipher.decrypt(ciphertext, key),
\* and the response made of it
ViewTransform ==
    /\ pc = "transform"
    /\ calls' = Append(calls, request.view)
    /\ \E result \in IF cipher \notin Transforming THEN OtherOutcomes
                     ELSE IF request.view = "encrypt"
                     THEN {encrypt(cipher, text, key)}
                     ELSE {decrypt(cipher, text, key)} :
          /\ IF request.view = "encrypt"
             THEN ct' = result /\ pt' = pt
             ELSE pt' = result /\ ct' = ct
          /\ response' = IF result.kind = "raise"
                         THEN ExceptResponse(request.view, result.exc)
                         ELSE JsonResult(result.val)
    /\ pc' = "responded"
    /\ UNCHANGED <<cipher, key, text, vk, inv, made_from, request,
                 registry, found, listing, key_cache, rng, threads, loop>>

NextView ==
    RequireHttpMethods \/ LoadBody \/ GetCipher \/ ViewValidateKey \/ ViewTransform

\* the cipher names of the requests: every registered name, 'CAESAR',
\* 'nonexistent', '', none at all, null, and names that are no string
RequestNames ==
    {StrV(name) : name \in DOMAIN CIPHER_REGISTRY}
        \cup {StrV(<<67, 65, 69, 83, 65, 82>>),
              StrV(<<110, 111, 110, 101, 120, 105, 115, 116, 101, 110, 116>>),
              StrV(<<>>), Absent, NoneV, IntV(5), IntV(0), ListV}

\* the keys: none, '', '3', 'abc', 'KEY', '5 8', '3 3 2 5', 3, 5, null
RequestKeys ==
    {Absent, StrV(<<>>), StrV(<<51>>), StrV(<<97, 98, 99>>), StrV(<<75, 69, 89>>),
     StrV(<<53, 32, 56>>), StrV(<<51, 32, 51, 32, 50, 32, 53>>), IntV(3), IntV(5),
     NoneV}

\* the request bodies: no JSON, JSON that is no object, and objects
RequestBodies ==
    {[json |-> j, cipher |-> Absent, plaintext |-> Absent, ciphertext |-> Absent,
      key |-> Absent] : j \in {"invalid", "list"}}
        \cup [json : {"object"}, cipher : RequestNames,
              plaintext : {Absent, StrV(<<72, 105>>), IntV(5)},
              ciphertext : {Absent, StrV(<<97, 98, 99>>)},
              key : RequestKeys]

InitView ==
    /\ request \in [view : {"encrypt", "decrypt"}, method : {"POST", "GET"},
                    body : RequestBodies]
    /\ response = NoResponse
    /\ calls = <<>>
    /\ InitProcess
    /\ pc = "received"
    /\ cipher = "none"
    /\ key = Absent
    /\ text = Absent
    /\ vk = NotCalled
    /\ ct = NotCalled
    /\ pt = NotCalled
    /\ inv = [c \in InvClasses |-> NotCalled]
    /\ made_from = <<>>

SpecView == InitView /\ [][NextView]_vars

\* s is the beginning of t
IsPrefix(s, t) == Len(s) <= Len(t) /\ s = SubSeq(t, 1, Len(s))

\* the transform of the cipher was invoked
TransformInvoked == \E i \in 1..Len(calls) : calls[i] \in {"encrypt", "decrypt"}

\* the request names no cipher, or names one the registry does not have
NameMissing == ~Truthy(Get(request.body.cipher, NoneV))
NameUnknown ==
    /\ request.body.cipher.t = "str"
    /\ StrLower(request.body.cipher.s) \notin DOMAIN CIPHER_REGISTRY

\* C5: the views call lookup, validate_key and the transform in that order;
\* the transform is invoked only after the lookup found the class and
\* validate_key returned valid; a request with a missing cipher name, an
\* unknown cipher name or a key that validate_key rejects is answered with
\* status 400 and the transform is never invoked.
C5_LookupValidateTransform ==
    /\ IsPrefix(calls, <<"get_cipher", "validate_key", request.view>>)
    /\ TransformInvoked
          => /\ request.body.cipher.t = "str"
             /\ cipher = CIPHER_REGISTRY[StrLower(request.body.cipher.s)]
             /\ vk = validate_key(cipher, Get(request.body.key, StrV(<<>>)))
             /\ KeyAccepted
    /\ (/\ pc = "responded"
        /\ request.method = "POST"
        /\ request.body.json = "object"
        /\ NameMissing \/ NameUnknown \/ (vk.kind = "return" /\ ~KeyAccepted))
          => response.status = 400 /\ ~TransformInvoked

\* a key was rejected and answered with 400; a request went all the way
C5_Witness ==
    /\ pc = "responded" /\ calls = <<"get_cipher", "validate_key">>
    /\ vk.kind = "return" /\ ~KeyAccepted /\ response.status = 400

C5_WitnessTransformed ==
    /\ pc = "responded" /\ calls = <<"get_cipher", "validate_key", "decrypt">>
    /\ response.status = 200 /\ response.result # <<>>

\* C6: every call of a view ends with one JSON response: status 200 with a
\* result, or status 400 or 500 with an error message; a validation failure
\* (validate_key does not accept the key) is answered with status 400.
C6_OneJsonResponse ==
    (pc = "responded" /\ request.method = "POST")
        => /\ response.content_type = "application/json"
           /\ \/ response.status = 200 /\ response.field = "result"
              \/ /\ response.status \in {400, 500}
                 /\ response.field = "error"
                 /\ response.error # ""
           /\ (vk # NotCalled /\ ~KeyAccepted) => response.status = 400

---------------------------------------------------------------------------
(* Affine and Multiplicative: keys written from integers, and keys that are not *)

\* the multipliers: small ones of both signs, the same above the modulus, and 13
Multipliers ==
    ((0 - MaxMultiplier)..MaxMultiplier) \cup {k + M : k \in 0..MaxMultiplier}
        \cup {M \div 2}

\* the additive parts of an Affine key: negative, zero, inside and above 0..25
AffineOffsets == {-27, -1, 0, 8, 25, 30}

\* the key string 'a b' of two integers, written as str(int) writes them
AffineKey(m) == PyStr(IntV(m[1])) \o <<32>> \o PyStr(IntV(m[2]))

\* '', '5', '5 8 1', 'a b', '5 x'
MalformedAffineKeys ==
    {StrV(<<>>), StrV(<<53>>), StrV(<<53, 32, 56, 32, 49>>), StrV(<<97, 32, 98>>),
     StrV(<<53, 32, 120>>)}

\* 'A', 'H', 'Z', ' ' for the generated texts
LinearChars == {65, 72, 90, 32}
LinearTexts == Strings(LinearChars, MaxLen) \cup ExampleTexts

InitAffine ==
    /\ cipher = "AffineCipher"
    /\ made_from \in (Multipliers \X AffineOffsets) \cup {<<>>}
    /\ key \in IF made_from = <<>> THEN MalformedAffineKeys
                                   ELSE {StrV(AffineKey(made_from))}

\* Multiplicative keys are integers, or the same integers written as a str
InitMultiplicative ==
    /\ cipher = "MultiplicativeCipher"
    /\ made_from \in {<<k>> : k \in Multipliers} \cup {<<>>}
    /\ key \in IF made_from = <<>> THEN {StrV(<<>>), StrV(<<97, 98, 99>>), NoneV}
               ELSE {IntV(made_from[1]), StrV(PyStr(IntV(made_from[1])))}

InitLinear ==
    /\ InitAffine \/ InitMultiplicative
    /\ text \in {StrV(s) : s \in LinearTexts}
    /\ pc = "new"
    /\ vk = NotCalled
    /\ ct = NotCalled
    /\ pt = NotCalled
    /\ inv = [c \in InvClasses |-> NotCalled]
    /\ request = NoRequest
    /\ response = NoResponse
    /\ calls = <<>>
    /\ InitProcess

SpecLinear == InitLinear /\ [][Next]_vars

\* s has no lower-case letter
IsUpperText(s) == \A i \in 1..Len(s) : ~IsLower(s[i])

C11_WitnessNegative ==
    /\ cipher = "AffineCipher" /\ pc = "decrypted" /\ KeyAccepted
    /\ made_from[1] < 0 /\ made_from[2] > M
    /\ Len(Letters(text.s)) > 1 /\ ct.val # text.s /\ pt = Ret(text.s)

C12_WitnessRejected ==
    /\ cipher = "MultiplicativeCipher" /\ pc = "validated" /\ ~KeyAccepted
    /\ made_from = <<13>>

---------------------------------------------------------------------------
(* Properties of Autokey and One-Time Pad, under SpecPoly *)

\* the number of letters of the key and of the text
KeyLetterCount == Len(Letters(key.s))
TextLetterCount == Len(Letters(text.s))

C13_WitnessFewer ==
    /\ cipher = "AutokeyCipher" /\ pc = "decrypted" /\ pt = Ret(text.s)
    /\ 0 < TextLetterCount /\ TextLetterCount < KeyLetterCount

C13_WitnessAsMany ==
    /\ cipher = "AutokeyCipher" /\ pc = "decrypted" /\ pt = Ret(text.s)
    /\ 0 < TextLetterCount /\ TextLetterCount = KeyLetterCount

\* the i-th letter of the text was shifted by the i-th letter of the key:
\* forward (sign 1) or back (sign -1), case kept, other characters unchanged
ShiftedByKey(s, out, sign) ==
    /\ SameCase(s, out)
    /\ \A i \in 1..Len(s) :
          IsAlpha(s[i])
             => LET j == Cardinality({h \in 1..i : IsAlpha(s[h])})
                IN /\ j <= KeyLetterCount
                   /\ (Upper(out[i]) - Upper(s[i])) % M
                         = (sign * (Upper(Letters(key.s)[j]) - OrdA)) % M

\* what C14 says of the calls made so far
OTPKeyLengthLaw ==
    /\ pc = "encrypted"
          => IF KeyLetterCount < TextLetterCount
             THEN ct = Raise("ValueError")
             ELSE ct.kind = "return" /\ ShiftedByKey(text.s, ct.val, 1)
    /\ pc = "decrypted_text"
          => IF KeyLetterCount < TextLetterCount
             THEN pt = Raise("ValueError")
             ELSE pt.kind = "return" /\ ShiftedByKey(text.s, pt.val, -1)
    /\ pc = "decrypted" => pt = Ret(text.s)

C14_WitnessRoundTrip ==
    /\ cipher = "OTPCipher" /\ pc = "decrypted" /\ pt = Ret(text.s)
    /\ KeyLetterCount = TextLetterCount /\ TextLetterCount > 0
    /\ Len(text.s) > TextLetterCount /\ Len(key.s) > KeyLetterCount


---------------------------------------------------------------------------
(* Properties of Playfair, under SpecPlayfair *)

\* 'A', 'X', 'J', 'i', ' '
PlayfairChars == {65, 88, 74, 105, 32}

\* 'BALLOON', 'hello world'
PlayfairTexts ==
    Strings(PlayfairChars, MaxLen)
        \cup {<<66, 65, 76, 76, 79, 79, 78>>,
              <<104, 101, 108, 108, 111, 32, 119, 111, 114, 108, 100>>}

\* 'KEY', 'J', 'MONARCHY', 'playfair example', 'X1'; and '', '12', which
\* validate_key rejects
PlayfairKeys ==
    {<<75, 69, 89>>, <<74>>, <<77, 79, 78, 65, 82, 67, 72, 89>>,
     <<112, 108, 97, 121, 102, 97, 105, 114, 32, 101, 120, 97, 109, 112, 108, 101>>,
     <<88, 49>>, <<>>, <<49, 50>>}

InitPlayfair ==
    InitCall({"PlayfairCipher"}, {StrV(s) : s \in PlayfairKeys},
             {StrV(s) : s \in PlayfairTexts})

SpecPlayfair == InitPlayfair /\ [][Next]_vars

\* the letters of the text, upper-cased, J written as I
PlayfairLetters(s) == Letters(JToI(StrUpper(s)))

\* r without the characters at the positions in removed
Without(r, removed) ==
    LET kept == (1..Len(r)) \ removed
        Nth(j) == CHOOSE i \in kept : Cardinality({k \in kept : k <= i}) = j
    IN [j \in 1..Cardinality(kept) |-> r[Nth(j)]]

\* r is n with 'X' fillers, each at the end of a digraph, and each either
\* between two identical letters of n or after the last letter of n
IsFilled(n, r) ==
    /\ Len(r) % 2 = 0
    /\ \E fillers \in SUBSET {i \in 1..Len(r) : i % 2 = 0} :
          /\ \A i \in fillers :
                /\ r[i] = 88
                /\ i = Len(r) \/ r[i - 1] = r[i + 1]
          /\ Without(r, fillers) = n
          /\ \A i \in 1..(Len(r) \div 2) :
                (2 * i) \notin fillers => r[2 * i - 1] # r[2 * i]

\* the digraphs joined into one string
RECURSIVE JoinDigraphs(_)
JoinDigraphs(d) == IF Len(d) = 0 THEN <<>> ELSE Head(d) \o JoinDigraphs(Tail(d))

\* the cells of two letters in the matrix are in the same row, in the same
\* column, or the corners of a rectangle
SameRow(matrix, a, b) ==
    PlayfairCipher_find_position(matrix, a)[1] = PlayfairCipher_find_position(matrix, b)[1]

SameColumn(matrix, a, b) ==
    PlayfairCipher_find_position(matrix, a)[2] = PlayfairCipher_find_position(matrix, b)[2]

\* decrypt takes the digraph that encrypt made of <<a, b>> back to <<a, b>>, by
\* the rule of the same kind
DigraphUndone(matrix, a, b) ==
    LET e == PlayfairDigraph(matrix, <<a, b>>, 1)
    IN /\ PlayfairDigraph(matrix, e, -1) = <<a, b>>
       /\ SameRow(matrix, a, b) <=> SameRow(matrix, e[1], e[2])
       /\ SameColumn(matrix, a, b) <=> SameColumn(matrix, e[1], e[2])

C15_WitnessExact ==
    /\ cipher = "PlayfairCipher"
    /\ KeyAccepted
    /\ pc = "decrypted"
    /\ pt = Ret(text.s)
    /\ Len(text.s) >= 2

---------------------------------------------------------------------------
(* Properties of Rail Fence, under SpecRailFence *)

\* the first n letters of the alphabet
AlphabetPrefix(n) == [i \in 1..n |-> OrdA + ((i - 1) % M)]

\* texts of distinct letters of every length up to MaxRailLen, the short texts
\* over 'A' and 'B', 'WEAREDISCOVERED', and 'Hello World'
RailFenceTexts ==
    {AlphabetPrefix(n) : n \in 0..MaxRailLen}
        \cup Strings({65, 66}, MaxLen)
        \cup {<<87, 69, 65, 82, 69, 68, 73, 83, 67, 79, 86, 69, 82, 69, 68>>,
              <<72, 101, 108, 108, 111, 32, 87, 111, 114, 108, 100>>}

\* the numbers of rails around the accepted range, and '3'
InitRailFence ==
    InitCall({"RailFenceCipher"}, {IntV(i) : i \in 0..12} \cup {StrV(<<51>>)},
             {StrV(s) : s \in RailFenceTexts})

SpecRailFence == InitRailFence /\ [][Next]_vars

\* upper-case text without spaces
UpperNoSpaces(s) == StrUpper(s) = s /\ StripSpaces(s) = s

\* how many times c occurs in s
Occurrences(s, c) == Cardinality({i \in 1..Len(s) : s[i] = c})

\* a and b hold the same characters the same number of times
IsPermutation(a, b) ==
    /\ Len(a) = Len(b)
    /\ \A i \in 1..Len(a) : Occurrences(a, a[i]) = Occurrences(b, a[i])

\* C16: for every accepted number of rails (2..10) and every upper-case text
\* without spaces, of any length, decrypt(encrypt(text, rails), rails) is the
\* text and the ciphertext is a permutation of the characters of the text
C16_RailFenceRoundTrip ==
    (cipher = "RailFenceCipher" /\ KeyAccepted /\ UpperNoSpaces(text.s)) =>
        /\ pc \in {"encrypted", "decrypted"} =>
              /\ PyInt(key).val \in 2..10
              /\ ct.kind = "return"
              /\ IsPermutation(ct.val, text.s)
        /\ pc = "decrypted" => pt = Ret(text.s)

\* a round trip of a text longer than the number of rails, whose ciphertext is
\* not the text
C16_Witness ==
    /\ cipher = "RailFenceCipher"
    /\ KeyAccepted
    /\ UpperNoSpaces(text.s)
    /\ pc = "decrypted"
    /\ ct.kind = "return"
    /\ ct.val # text.s
    /\ PyInt(key).val >= 3
    /\ pt = Ret(text.s)

\* a round trip of a text no longer than the number of rails
C16_WitnessShort ==
    /\ cipher = "RailFenceCipher"
    /\ KeyAccepted
    /\ UpperNoSpaces(text.s)
    /\ pc = "decrypted"
    /\ Len(text.s) > 0
    /\ Len(text.s) <= PyInt(key).val
    /\ pt = Ret(text.s)

\* ten rails, and a text long enough to use them all
C16_WitnessTenRails ==
    /\ cipher = "RailFenceCipher"
    /\ pc = "decrypted"
    /\ PyInt(key).val = 10
    /\ ct.kind = "return"
    /\ ct.val # text.s
    /\ pt = Ret(text.s)

---------------------------------------------------------------------------
(* Properties of Columnar Transposition, under SpecColumnar *)

\* keywords over 'A', 'b', ' ' (valid and not), 'KEY' and 'ZEBRA'
ColumnarKeys ==
    Strings({65, 98, 32}, MaxColumns)
        \cup {<<75, 69, 89>>, <<90, 69, 66, 82, 65>>}

\* texts over 'A', 'B', 'X', and 'WEAREDISCOVERED', 'Hello World'
ColumnarTexts ==
    Strings({65, 66, 88}, MaxLen)
        \cup {<<87, 69, 65, 82, 69, 68, 73, 83, 67, 79, 86, 69, 82, 69, 68>>,
              <<72, 101, 108, 108, 111, 32, 87, 111, 114, 108, 100>>}

InitColumnar ==
    InitCall({"ColumnarCipher"}, {StrV(s) : s \in ColumnarKeys},
             {StrV(s) : s \in ColumnarTexts})

SpecColumnar == InitColumnar /\ [][Next]_vars

\* C17: for every keyword that validate_key accepts (at least 2 letters,
\* repeated letters allowed) and every upper-case text without spaces,
\* decrypt(encrypt(text, key), key) is the text followed by the fewest 'X' that
\* make its length a multiple of the number of letters of the keyword, and is
\* the text itself when its length already is such a multiple
C17_ColumnarRoundTrip ==
    (/\ cipher = "ColumnarCipher"
     /\ KeyAccepted
     /\ UpperNoSpaces(text.s)
     /\ pc = "decrypted") =>
        LET n == Len(StripSpaces(key.s)) IN
        /\ n >= 2
        /\ pt.kind = "return"
        /\ Len(pt.val) % n = 0
        /\ Len(pt.val) - Len(text.s) \in 0..(n - 1)
        /\ SubSeq(pt.val, 1, Len(text.s)) = text.s
        /\ \A i \in (Len(text.s) + 1)..Len(pt.val) : pt.val[i] = 88
        /\ Len(text.s) % n = 0 => pt.val = text.s

\* a round trip under a keyword with a repeated letter, that added filler to a
\* ciphertext in another order than the text
C17_Witness ==
    /\ cipher = "ColumnarCipher"
    /\ KeyAccepted
    /\ UpperNoSpaces(text.s)
    /\ pc = "decrypted"
    /\ \E i, j \in 1..Len(key.s) : i # j /\ Upper(key.s[i]) = Upper(key.s[j])
    /\ pt.kind = "return"
    /\ Len(pt.val) > Len(text.s)
    /\ ct.val # pt.val

\* an exact round trip of a text that fills its rows
C17_WitnessExact ==
    /\ cipher = "ColumnarCipher"
    /\ KeyAccepted
    /\ UpperNoSpaces(text.s)
    /\ pc = "decrypted"
    /\ Len(text.s) > Len(key.s)
    /\ ct.val # text.s
    /\ pt = Ret(text.s)

---------------------------------------------------------------------------
(* Properties of Feistel, under SpecFeistel *)

\* 'A', NUL, the euro sign (U+20AC)
FeistelChars == {65, 0, 8364}

\* 'Hello World', 'abcdefghi'
FeistelTexts ==
    Strings(FeistelChars, MaxLen)
        \cup {<<72, 101, 108, 108, 111, 32, 87, 111, 114, 108, 100>>,
              <<97, 98, 99, 100, 101, 102, 103, 104, 105>>}

\* 'k', 'KEY', 'secretkey', and ''
FeistelKeys ==
    {<<107>>, <<75, 69, 89>>, <<115, 101, 99, 114, 101, 116, 107, 101, 121>>, <<>>}

InitFeistel ==
    InitCall({"FeistelCipher"}, {StrV(s) : s \in FeistelKeys},
             {StrV(s) : s \in FeistelTexts})

SpecFeistel == InitFeistel /\ [][Next]_vars

\* str.rstrip('\x00')
RECURSIVE RStripNul(_)
RStripNul(s) ==
    IF Len(s) > 0 /\ s[Len(s)] = 0 THEN RStripNul(SubSeq(s, 1, Len(s) - 1)) ELSE s

\* C18: for every non-empty key and every plaintext string,
\* decrypt(encrypt(plaintext, key), key), trailing NUL padding stripped, is the
\* plaintext (up to NUL characters at its own end): no character of the
\* plaintext is lost
C18_FeistelRoundTrip ==
    (cipher = "FeistelCipher" /\ Len(key.s) > 0 /\ pc = "decrypted") =>
        /\ pt.kind = "return"
        /\ RStripNul(pt.val) = RStripNul(text.s)

\* the same for the plaintexts whose characters are all in 1..255: the sixteen
\* rounds with the round keys reversed restore every block
FeistelRoundTripOneByteChars ==
    (/\ cipher = "FeistelCipher"
     /\ Len(key.s) > 0
     /\ pc = "decrypted"
     /\ \A i \in 1..Len(text.s) : text.s[i] \in 1..255) =>
        pt = Ret(text.s)

---------------------------------------------------------------------------
(* Properties of Vernam, under SpecVernam *)

\* 'HI', 'Hello World'
VernamTexts ==
    Strings(FeistelChars, MaxLen)
        \cup {<<72, 73>>, <<72, 101, 108, 108, 111, 32, 87, 111, 114, 108, 100>>}

\* 'K', 'KEY', 'k' with the euro sign, and ''
VernamKeys == {<<75>>, <<75, 69, 89>>, <<107, 8364>>, <<>>}

InitVernam ==
    InitCall({"VernamCipher"}, {StrV(s) : s \in VernamKeys},
             {StrV(s) : s \in VernamTexts})

SpecVernam == InitVernam /\ [][Next]_vars

\* a ^ b of two natural numbers
RECURSIVE XorNat(_, _)
XorNat(a, b) ==
    IF a = 0 /\ b = 0 THEN 0
    ELSE ((a + b) % 2) + 2 * XorNat(a \div 2, b \div 2)

\* the ciphertext is one pair of hexadecimal digits for every character of
\* the text, the XOR of the character and the key character at its position
\* in the repeated key
XorPairs(s, k, out) ==
    /\ Len(out) = 2 * Len(s)
    /\ \A i \in 1..Len(s) :
          /\ IsHexDigit(out[2 * i - 1])
          /\ IsHexDigit(out[2 * i])
          /\ HexDigitsValue(SubSeq(out, 2 * i - 1, 2 * i))
                = XorNat(s[i], k[((i - 1) % Len(k)) + 1])

\* C19: for every non-empty key and every plaintext string, encrypt returns
\* two hexadecimal digits for each plaintext character, the XOR of the
\* character with the key character at the same position of the repeated
\* key, and decrypt(encrypt(plaintext, key), key) is the plaintext
C19_VernamXorRoundTrip ==
    (cipher = "VernamCipher" /\ Len(key.s) > 0) =>
        /\ pc \in {"encrypted", "decrypted"} =>
              /\ ct.kind = "return"
              /\ XorPairs(text.s, key.s, ct.val)
        /\ pc = "decrypted" => pt = Ret(text.s)

\* the same for plaintexts and keys whose characters are all below 256
VernamOneByteChars ==
    (/\ cipher = "VernamCipher"
     /\ Len(key.s) > 0
     /\ \A i \in 1..Len(key.s) : key.s[i] < 256
     /\ \A i \in 1..Len(text.s) : text.s[i] < 256) =>
        /\ pc \in {"encrypted", "decrypted"} =>
              /\ ct.kind = "return"
              /\ XorPairs(text.s, key.s, ct.val)
        /\ pc = "decrypted" => pt = Ret(text.s)

---------------------------------------------------------------------------
(* Properties of Additive, under SpecShift *)

C20_WitnessWrap ==
    /\ cipher = "AdditiveCipher"
    /\ key.t = "int"
    /\ key.n = 25
    /\ pc = "decrypted"
    /\ \E i \in 1..Len(text.s) : text.s[i] = 122 /\ ct.val[i] = 121
    /\ pt = Ret(text.s)

---------------------------------------------------------------------------
(* The worked examples, under SpecExample *)

\* the classes whose encrypt and decrypt are modelled
Modelled ==
    Transforming \cup {"PlayfairCipher", "RailFenceCipher", "ColumnarCipher",
                       "FeistelCipher", "VernamCipher"}

\* every modelled class on the plaintext and the key of every worked example
InitExample ==
    InitCall(Modelled,
             {StrV(get_example(c).key) : c \in Modelled},
             {StrV(get_example(c).plaintext) : c \in Modelled})

SpecExample == InitExample /\ [][Next]_vars

\* encrypt was called on the worked example of the class
ExampleEncrypted ==
    /\ pc = "encrypted"
    /\ text.s = get_example(cipher).plaintext
    /\ key.s = get_example(cipher).key

\* C21: for every class that documents a worked example in get_example,
\* encrypt(example.plaintext, example.key) returns exactly example.result
C21_ExamplesHold ==
    (cipher \in Documented /\ ExampleEncrypted) =>
        ct = Ret(get_example(cipher).result)

\* the same for the documented classes other than Playfair
ExamplesHoldButPlayfair ==
    (cipher \in Documented \ {"PlayfairCipher"} /\ ExampleEncrypted) =>
        ct = Ret(get_example(cipher).result)

\* encrypt('HELLO', 'KEYWORD') of Playfair is 'GYIZSC'
PlayfairExampleResult ==
    (cipher = "PlayfairCipher" /\ ExampleEncrypted) =>
        ct = Ret(<<71, 89, 73, 90, 83, 67>>)

---------------------------------------------------------------------------
(* The registry: lookups, listings and calls on the classes found, under   *)
(* SpecRegistry                                                            *)

\* every spelling of s in upper and lower case
RECURSIVE Spellings(_)
Spellings(s) ==
    IF Len(s) = 0 THEN {<<>>}
    ELSE {<<c>> \o r : c \in {Upper(Head(s)), Lower(Head(s))}, r \in Spellings(Tail(s))}

\* 'Caesar' from 'caesar'
Capitalized(s) == [i \in 1..Len(s) |-> IF i = 1 THEN Upper(s[i]) ELSE s[i]]

\* '', 'nonexistent', 'rot13', 'caesars', 'caesar ', 'ae'
Unregistered ==
    {<<>>, <<110, 111, 110, 101, 120, 105, 115, 116, 101, 110, 116>>,
     <<114, 111, 116, 49, 51>>, <<99, 97, 101, 115, 97, 114, 115>>,
     <<99, 97, 101, 115, 97, 114, 32>>, <<97, 101>>}

\* the names looked up: every spelling of the identifiers of up to MaxSpelled
\* characters; the lower-case, upper-case and capitalized spelling of the
\* longer ones; and strings that are no identifier
LookupNames ==
    UNION {IF Len(n) <= MaxSpelled THEN Spellings(n)
           ELSE {n, StrUpper(n), Capitalized(n)} : n \in DOMAIN CIPHER_REGISTRY}
        \cup Unregistered

\* get_cipher(name)
Lookup ==
    /\ \E n \in LookupNames :
          found' = [name |-> n, outcome |-> get_cipher(StrV(n))]
    /\ UNCHANGED <<cipher, key, text, pc, vk, ct, pt, inv, made_from, request,
                   response, calls, registry, listing, key_cache, rng, threads, loop>>

\* get_all_ciphers()
Listing ==
    /\ listing' = Ret(get_all_ciphers)
    /\ UNCHANGED <<cipher, key, text, pc, vk, ct, pt, inv, made_from, request,
                   response, calls, registry, found, key_cache, rng, threads, loop>>

\* validate_key(key) on the class that the last lookup returned
CipherCall ==
    /\ found # NotCalled
    /\ found.outcome.kind = "return"
    /\ found.outcome.val # "None"
    /\ cipher' = found.outcome.val
    /\ vk' = validate_key(found.outcome.val, key)
    /\ UNCHANGED <<key, text, pc, ct, pt, inv, made_from, request, response, calls,
                   registry, found, listing, key_cache, rng, threads, loop>>

NextRegistry == Lookup \/ Listing \/ CipherCall

InitRegistry == InitCall({"None"}, {StrV(<<75, 69, 89>>), IntV(3)}, {StrV(<<>>)})

SpecRegistry == InitRegistry /\ [][NextRegistry]_vars

\* 'caesar', 'aes', 'rsa'
ListedNames == {<<99, 97, 101, 115, 97, 114>>, <<97, 101, 115>>, <<114, 115, 97>>}

\* C22: get_all_ciphers() returns exactly 16 entries, one for each registered
\* identifier, 'caesar', 'aes' and 'rsa' among them, and every entry has the
\* four attributes name, description, key_type and key_hint
C22_SixteenCiphers ==
    listing # NotCalled =>
        /\ listing.kind = "return"
        /\ Cardinality(DOMAIN listing.val) = 16
        /\ DOMAIN listing.val = DOMAIN CIPHER_REGISTRY
        /\ ListedNames \subseteq DOMAIN listing.val
        /\ \A n \in DOMAIN listing.val :
              DOMAIN listing.val[n] = {"name", "description", "key_type", "key_hint"}

\* the same with the number of entries the registry has
ListingOfEighteen ==
    listing # NotCalled =>
        /\ listing.kind = "return"
        /\ Cardinality(DOMAIN listing.val) = 18
        /\ DOMAIN listing.val = DOMAIN CIPHER_REGISTRY
        /\ ListedNames \subseteq DOMAIN listing.val
        /\ \A n \in DOMAIN listing.val :
              DOMAIN listing.val[n] = {"name", "description", "key_type", "key_hint"}

\* a and b are the same string up to the case of the letters
SameSpelling(a, b) ==
    /\ Len(a) = Len(b)
    /\ \A i \in 1..Len(a) : Lower(a[i]) = Lower(b[i])

\* C23: for every registered identifier and every upper/lower-case spelling
\* of it get_cipher returns the class registered under the identifier; for
\* every string that spells no registered identifier it returns None; and
\* no lookup, listing or call on a cipher class changes the registry
C23_LookupCaseInsensitive ==
    /\ registry = CIPHER_REGISTRY
    /\ found # NotCalled =>
          /\ found.outcome.kind = "return"
          /\ \A id \in DOMAIN CIPHER_REGISTRY :
                SameSpelling(found.name, id) =>
                    found.outcome.val = CIPHER_REGISTRY[id]
          /\ (~\E id \in DOMAIN CIPHER_REGISTRY : SameSpelling(found.name, id)) =>
                found.outcome.val = "None"

\* a lookup of a mixed-case spelling found the class, after a listing and a
\* call on a class found before
C23_Witness ==
    /\ found # NotCalled
    /\ found.name = <<104, 73, 108, 76>>
    /\ found.outcome = Ret("HillCipher")
    /\ listing # NotCalled
    /\ vk # NotCalled
    /\ cipher = "CaesarCipher"

\* a lookup of a string that spells no identifier returned None
C23_WitnessNone ==
    /\ found # NotCalled
    /\ found.name = <<99, 97, 101, 115, 97, 114, 115>>
    /\ found.outcome = Ret("None")

---------------------------------------------------------------------------
(* rsa.py: encrypt and then decrypt calls of several threads, each step of *)
(* _generate_key_pair a step of its own, under SpecRSA.  The library calls *)
(* are taken by their contract: decrypt under the key pair whose public    *)
(* key encrypted gives the plaintext back, under another key pair it       *)
(* raises ValueError.  gen_prime is one draw from the random generator.    *)

\* the import of PyCryptodome succeeded
CRYPTO_AVAILABLE == TRUE

Threads == 1..MaxThreads

\* 'pass', 'word'
Passwords == {<<112, 97, 115, 115>>, <<119, 111, 114, 100>>}

NoKey == <<>>

\* a thread about to call encrypt('HI', password)
NewThread(password) ==
    [pc |-> "start", op |-> "encrypt", password |-> password, text |-> <<72, 73>>,
     p |-> <<>>, q |-> <<>>, rsa_key |-> NoKey, ct |-> NotCalled, pt |-> NotCalled]

\* the variables that the RSA calls leave alone
rest ==
    <<cipher, key, text, pc, vk, ct, pt, inv, made_from, request, response, calls,
      registry, found, listing, loop>>

\* encrypt or decrypt calls self._generate_key_pair(str(key))
RSACall(t) ==
    /\ threads[t].pc = "start"
    /\ threads' = [threads EXCEPT ![t].pc =
                      IF CRYPTO_AVAILABLE THEN "check" ELSE "import_error"]
    /\ UNCHANGED <<rest, key_cache, rng>>

\* "if password in self._key_cache: return self._key_cache[password]"
RSACheckCache(t) ==
    /\ threads[t].pc = "check"
    /\ threads' =
          IF threads[t].password \in DOMAIN key_cache
          THEN [threads EXCEPT ![t].rsa_key = key_cache[threads[t].password],
                               ![t].pc = "use"]
          ELSE [threads EXCEPT ![t].pc = "seed"]
    /\ UNCHANGED <<rest, key_cache, rng>>

\* random.seed(int.from_bytes(sha256(password), 'big')) on the generator of
\* the process; the seed is named by the password
RSASeed(t) ==
    /\ threads[t].pc = "seed"
    /\ rng' = [seed |-> threads[t].password, drawn |-> 0]
    /\ threads' = [threads EXCEPT ![t].pc = "gen_p"]
    /\ UNCHANGED <<rest, key_cache>>

\* p = gen_prime(1024): the prime that the generator gives in its state
RSAGenP(t) ==
    /\ threads[t].pc = "gen_p"
    /\ rng' = [rng EXCEPT !.drawn = @ + 1]
    /\ threads' = [threads EXCEPT ![t].p = <<rng.seed, rng.drawn>>, ![t].pc = "gen_q"]
    /\ UNCHANGED <<rest, key_cache>>

\* q = gen_prime(1024)
RSAGenQ(t) ==
    /\ threads[t].pc = "gen_q"
    /\ rng' = [rng EXCEPT !.drawn = @ + 1]
    /\ threads' = [threads EXCEPT ![t].q = <<rng.seed, rng.drawn>>, ![t].pc = "store"]
    /\ UNCHANGED <<rest, key_cache>>

\* key = RSA.construct(...); self._key_cache[password] = key; return key
RSAStore(t) ==
    /\ threads[t].pc = "store"
    /\ LET k == <<threads[t].p, threads[t].q>>
       IN /\ key_cache' =
                 [w \in DOMAIN key_cache \cup {threads[t].password} |->
                     IF w = threads[t].password THEN k ELSE key_cache[w]]
          /\ threads' = [threads EXCEPT ![t].rsa_key = k, ![t].pc = "use"]
    /\ UNCHANGED <<rest, rng>>

\* encrypt under rsa_key.publickey(); the same thread then calls decrypt on
\* the ciphertext
RSAEncrypt(t) ==
    /\ threads[t].pc = "use"
    /\ threads[t].op = "encrypt"
    /\ threads' = [threads EXCEPT
                      ![t].ct = Ret([under |-> threads[t].rsa_key,
                                     plaintext |-> threads[t].text]),
                      ![t].op = "decrypt",
                      ![t].rsa_key = NoKey,
                      ![t].pc = "start"]
    /\ UNCHANGED <<rest, key_cache, rng>>

\* decrypt under rsa_key
RSADecrypt(t) ==
    /\ threads[t].pc = "use"
    /\ threads[t].op = "decrypt"
    /\ threads' = [threads EXCEPT
                      ![t].pt = IF threads[t].ct.val.under = threads[t].rsa_key
                                THEN Ret(threads[t].ct.val.plaintext)
                                ELSE Raise("ValueError"),
                      ![t].pc = "done"]
    /\ UNCHANGED <<rest, key_cache, rng>>

NextRSA ==
    \E t \in Threads :
        \/ RSACall(t)
        \/ RSACheckCache(t)
        \/ RSASeed(t)
        \/ RSAGenP(t)
        \/ RSAGenQ(t)
        \/ RSAStore(t)
        \/ RSAEncrypt(t)
        \/ RSADecrypt(t)

InitRSA ==
    /\ cipher = "RSACipher"
    /\ key = StrV(<<>>)
    /\ text = StrV(<<>>)
    /\ pc = "new"
    /\ vk = NotCalled
    /\ ct = NotCalled
    /\ pt = NotCalled
    /\ inv = [c \in InvClasses |-> NotCalled]
    /\ made_from = <<>>
    /\ request = NoRequest
    /\ response = NoResponse
    /\ calls = <<>>
    /\ registry = CIPHER_REGISTRY
    /\ found = NotCalled
    /\ listing = NotCalled
    /\ key_cache = <<>>
    /\ rng = Unseeded
    /\ threads \in [Threads -> {NewThread(w) : w \in Passwords}]
    /\ loop = NoLoop

SpecRSA == InitRSA /\ [][NextRSA]_vars

\* C24: for any password every encrypt and decrypt call of the process uses
\* the same key pair for that password, so decrypt(encrypt(text, password),
\* password) is the text, also when calls for the same or for different
\* passwords run at the same time and interleave inside _generate_key_pair
C24_SameKeyPair ==
    /\ \A t, u \in Threads :
          (/\ threads[t].password = threads[u].password
           /\ threads[t].rsa_key # NoKey
           /\ threads[u].rsa_key # NoKey) =>
              threads[t].rsa_key = threads[u].rsa_key
    /\ \A t \in Threads :
          threads[t].pc = "done" => threads[t].pt = Ret(threads[t].text)

\* the same for a thread that runs while no other thread is inside a call
RSAAloneRoundTrip ==
    \A t \in Threads :
        (/\ threads[t].pc = "done"
         /\ \A u \in Threads \ {t} : threads[u].pc = "start" /\ threads[u].op = "encrypt") =>
            threads[t].pt = Ret(threads[t].text)

---------------------------------------------------------------------------
(* The loop of AutokeyCipher.decrypt, one iteration at a time, under SpecAutokey *)

\* decrypt is entered: the key is cleaned and refused when no letter is left,
\* otherwise the locals are set up in front of the loop
AutokeyEnter ==
    /\ pc = "new"
    /\ LET primer == KeyLetters(key) IN
       IF Len(primer) = 0
       THEN /\ pt' = Raise("ValueError")
            /\ pc' = "decrypted_text"
            /\ loop' = NoLoop
       ELSE /\ loop' = [at |-> "for", i |-> 1, result |-> <<>>, current_key |-> primer,
                        key_index |-> 0, shift |-> <<>>]
            /\ pc' = "decrypting"
            /\ pt' = pt
    /\ UNCHANGED <<cipher, key, text, vk, ct, inv, made_from, request, response, calls,
                 registry, found, listing, key_cache, rng, threads>>

\* the loop takes the next character of the ciphertext
AutokeyIterate ==
    /\ loop.at = "for"
    /\ loop.i <= Len(text.s)
    /\ loop' = AutokeyDecryptStep(text.s, loop)
    /\ UNCHANGED <<cipher, key, text, pc, vk, ct, pt, inv, made_from, request, response,
                 calls, registry, found, listing, key_cache, rng, threads>>

\* the ciphertext is used up: the result is joined and returned
AutokeyReturn ==
    /\ loop.at = "for"
    /\ loop.i > Len(text.s)
    /\ pt' = Ret(loop.result)
    /\ pc' = "decrypted_text"
    /\ loop' = NoLoop
    /\ UNCHANGED <<cipher, key, text, vk, ct, inv, made_from, request, response, calls,
                 registry, found, listing, key_cache, rng, threads>>

NextAutokey == AutokeyEnter \/ AutokeyIterate \/ AutokeyReturn

InitAutokey ==
    InitCall({"AutokeyCipher"},
             {StrV(s) : s \in Strings(PolyKeyChars, MaxKeyLen) \cup {<<75, 69, 89>>}},
             {StrV(s) : s \in Strings(PolyChars, MaxLen) \cup ExampleTexts})

SpecAutokey == InitAutokey /\ [][NextAutokey]_vars

\* the recovered plaintext letters so far, upper-cased
Recovered == StrUpper(Letters(loop.result))

\* C25: while AutokeyCipher.decrypt is in its loop, the shift applied to the i-th
\* ciphertext letter (from 0) was the i-th primer letter when i < len(primer) and
\* the recovered plaintext letter i - len(primer) otherwise; the key array holds
\* len(primer) entries plus one for each letter decrypted so far, so the index of
\* the next key letter is inside the array.
C25_AutokeyKeyStream ==
    loop.at = "for" =>
        LET primer == KeyLetters(key)
            done == Len(Letters(SubSeq(text.s, 1, loop.i - 1)))
        IN /\ Len(loop.shift) = done
           /\ loop.key_index = done
           /\ \A n \in 0..(done - 1) :
                 loop.shift[n + 1] =
                     (IF n < Len(primer) THEN primer[n + 1]
                      ELSE Recovered[n - Len(primer) + 1]) - OrdA
           /\ Len(loop.current_key) = Len(primer) + done
           /\ loop.key_index < Len(loop.current_key)

\* a call that has decrypted more letters than the primer has, with a primer of
\* two letters: the last shift came from a recovered letter
C25_Witness ==
    /\ loop.at = "for"
    /\ Len(KeyLetters(key)) = 2
    /\ loop.key_index = 4
    /\ loop.shift[4] = Recovered[2] - OrdA
    /\ loop.shift[4] # KeyLetters(key)[2] - OrdA

\* the loop, run to its end, returns what the decrypt operator returns
AutokeyLoopIsDecrypt ==
    pc = "decrypted_text" => pt = AutokeyCipher_decrypt(text, key)

---------------------------------------------------------------------------
(* The key stream of Vigenere, under SpecPoly *)

\* the position in the alphabet of the letter c, either case
AlphabetIndex(c) == IF c >= Orda THEN c - Orda ELSE c - OrdA

\* the letters of the key as the cipher uses them
VigenereKey == StripSpaces(StrUpper(key.s))

\* out is s with its n-th letter (from 0) moved by sign times the key letter
\* n mod len(key), in upper case, and every other character as it was
ShiftedByKeyStream(s, out, sign) ==
    /\ Len(out) = Len(s)
    /\ \A j \in 1..Len(s) :
          IF IsAlpha(s[j])
          THEN LET n == Len(Letters(SubSeq(s, 1, j - 1)))
                   k == AlphabetIndex(VigenereKey[(n % Len(VigenereKey)) + 1])
               IN /\ IsUpper(out[j])
                  /\ (AlphabetIndex(out[j]) - AlphabetIndex(s[j]) - sign * k) % M = 0
          ELSE out[j] = s[j]

\* C26: with an accepted key, Vigenere encrypt shifts the i-th letter of the text
\* (letters counted only) by the key letter i mod len(key) and copies every other
\* character without advancing the key, and decrypt shifts back the same way;
\* encrypt('HELLO', 'KEY') is 'RIJVS' and decrypt('RIJVS', 'KEY') is 'HELLO'.
C26_VigenereKeyStream ==
    (cipher = "VigenereCipher" /\ KeyAccepted) =>
        /\ pc \in {"encrypted", "decrypted"} =>
              /\ ct.kind = "return"
              /\ ShiftedByKeyStream(text.s, ct.val, 1)
              /\ (text.s = <<72, 69, 76, 76, 79>> /\ key.s = <<75, 69, 89>>)
                     => ct.val = <<82, 73, 74, 86, 83>>
        /\ pc = "decrypted" =>
              /\ pt.kind = "return"
              /\ ShiftedByKeyStream(ct.val, pt.val, -1)
              /\ (ct.val = <<82, 73, 74, 86, 83>> /\ key.s = <<75, 69, 89>>)
                     => pt.val = <<72, 69, 76, 76, 79>>
        /\ pc = "decrypted_text" =>
              /\ pt.kind = "return"
              /\ ShiftedByKeyStream(text.s, pt.val, -1)

\* 'Hello World' under 'KEY': the blank has not advanced the key, 'W' is the
\* sixth letter and is shifted by 'Y' to 'U'
C26_Witness ==
    /\ cipher = "VigenereCipher"
    /\ pc = "decrypted"
    /\ key.s = <<75, 69, 89>>
    /\ Len(text.s) = 11
    /\ ct.val[6] = 32
    /\ ct.val[7] = 85
    /\ pt.val[7] = 87

\* the worked example in both directions
C26_WitnessExample ==
    /\ cipher = "VigenereCipher"
    /\ pc = "decrypted"
    /\ key.s = <<75, 69, 89>>
    /\ ct.val = <<82, 73, 74, 86, 83>>
    /\ pt.val = <<72, 69, 76, 76, 79>>

---------------------------------------------------------------------------
(* The grid of Columnar encrypt, under SpecColumnar *)

\* the key and the text as the cipher uses them
ColumnarKey == StripSpaces(StrUpper(key.s))
ColumnarText == StripSpaces(StrUpper(text.s))

\* the text followed by as few 'X' as fill the last row of the grid
ColumnarPadded ==
    LET width == Len(ColumnarKey)
        rows == (Len(ColumnarText) + width - 1) \div width
    IN ColumnarText \o [i \in 1..(rows * width - Len(ColumnarText)) |-> 88]

\* order lists every column once, by key letter and then by column index
IsColumnOrder(order) ==
    LET width == Len(ColumnarKey) IN
    /\ Len(order) = width
    /\ \A col \in 0..(width - 1) : \E j \in 1..width : order[j] = col
    /\ \A j \in 1..(width - 1) :
          LET a == order[j]
              b == order[j + 1]
          IN \/ ColumnarKey[a + 1] < ColumnarKey[b + 1]
             \/ (ColumnarKey[a + 1] = ColumnarKey[b + 1] /\ a < b)

\* out is the columns of the grid, whole, one after the other in that order
IsColumnsInOrder(out, order) ==
    LET width == Len(ColumnarKey)
        rows == Len(ColumnarPadded) \div width
    IN /\ Len(out) = rows * width
       /\ \A j \in 1..width : \A r \in 0..(rows - 1) :
             out[(j - 1) * rows + r + 1] = ColumnarPadded[r * width + order[j] + 1]

\* C27: with an accepted key, Columnar encrypt returns the columns of the grid of
\* the upper-cased, space-stripped, 'X'-padded text, as wide as the key, in the
\* order of the key letters sorted alphabetically with ties by column index; the
\* ciphertext has ceil(n / len(key)) * len(key) characters and is a permutation
\* of the padded text.
C27_ColumnarColumns ==
    (pc \in {"encrypted", "decrypted"} /\ KeyAccepted) =>
        LET width == Len(ColumnarKey)
            n == Len(ColumnarText)
        IN /\ ct.kind = "return"
           /\ \E order \in [1..width -> 0..(width - 1)] :
                 IsColumnOrder(order) /\ IsColumnsInOrder(ct.val, order)
           /\ Len(ct.val) = ((n + width - 1) \div width) * width
           /\ IsPermutation(ct.val, ColumnarPadded)

\* 'Hello World' under 'KEY': ten letters in a grid of three columns, two 'X'
\* added, the columns read in the order E, K, Y
C27_Witness ==
    /\ pc = "encrypted"
    /\ key.s = <<75, 69, 89>>
    /\ Len(text.s) = 11
    /\ ct = Ret(<<69, 79, 82, 88, 72, 76, 79, 68, 76, 87, 76, 88>>)

\* a key with the same letter twice and a ciphertext that shows the order
C27_WitnessTie ==
    /\ pc = "encrypted"
    /\ ColumnarKey = <<65, 65>>
    /\ text.s = <<65, 66>>
    /\ ct = Ret(<<65, 66>>)

---------------------------------------------------------------------------
(* The Playfair matrix, under SpecMatrix *)

\* keywords over 'J', 'i', 'z', '1', the keywords of SpecPlayfair, and the
\* one-letter keyword 'é'
MatrixKeys == Strings({74, 105, 122, 49}, MaxKeyLen) \cup PlayfairKeys \cup {<<233>>}

\* the texts of one letter, 'A' to 'Z'
MatrixTexts == {<<c>> : c \in 65..90}

InitMatrix ==
    InitCall({"PlayfairCipher"}, {StrV(s) : s \in MatrixKeys},
             {StrV(s) : s \in MatrixTexts})

SpecMatrix == InitMatrix /\ [][Next]_vars

\* the keyword in upper case with J written as I
KeywordUpper == JToI(StrUpper(key.s))

\* the place of the first occurrence of the letter c in the keyword
FirstOccurrence(c) == CHOOSE i \in 1..Len(KeywordUpper) :
    KeywordUpper[i] = c /\ \A h \in 1..(i - 1) : KeywordUpper[h] # c

\* flat is 25 characters, each letter of the alphabet without J once: the letters
\* of the keyword in the order of their first occurrence, then the others in
\* the order of the alphabet
IsKeyedAlphabet(flat) ==
    LET in_keyword == {KeywordUpper[i] : i \in 1..Len(KeywordUpper)} \cap (65..90)
        n == Cardinality(in_keyword)
    IN /\ Len(flat) = 25
       /\ \A i \in 1..Len(PlayfairAlphabet) : Occurrences(flat, PlayfairAlphabet[i]) = 1
       /\ {flat[i] : i \in 1..n} = in_keyword
       /\ \A i, j \in 1..n : i < j => FirstOccurrence(flat[i]) < FirstOccurrence(flat[j])
       /\ \A i, j \in (n + 1)..25 : i < j => flat[i] < flat[j]

\* the rows of the matrix one after the other
MatrixFlat(matrix) == matrix[1] \o matrix[2] \o matrix[3] \o matrix[4] \o matrix[5]

\* the matrix of the keyword is five rows of five, a keyed alphabet, and
\* _find_position finds every letter 'A' to 'Z' in it
IsPlayfairMatrix ==
    LET matrix == PlayfairCipher_create_matrix(key.s) IN
    /\ Len(matrix) = 5
    /\ \A r \in 1..5 : Len(matrix[r]) = 5
    /\ IsKeyedAlphabet(MatrixFlat(matrix))
    /\ \A c \in 65..90 :
          /\ ~PlayfairCipher_find_position_raises(matrix, c)
          /\ LET p == PlayfairCipher_find_position(matrix, c)
             IN matrix[p[1] + 1][p[2] + 1] = (IF c = 74 THEN 73 ELSE c)

\* C28: for every keyword, _create_matrix returns a 5x5 grid with each of the 25
\* letters (A-Z without J) exactly once, the distinct letters of the keyword
\* first, in the order of their first occurrence (J as I, other characters
\* ignored), then the remaining letters in alphabetical order; so _find_position
\* succeeds for every letter A-Z, and encrypt of a letter returns.
C28_MatrixOfTwentyFive ==
    cipher = "PlayfairCipher" =>
        /\ pc = "validated" => IsPlayfairMatrix
        /\ pc = "encrypted" => ct.kind = "return"

\* the same for the keywords of ASCII characters
MatrixOfAsciiKeyword ==
    (cipher = "PlayfairCipher" /\ \A i \in 1..Len(key.s) : key.s[i] < 128) =>
        /\ pc = "validated" => IsPlayfairMatrix
        /\ pc = "encrypted" => ct.kind = "return"

\* the keyword 'é' is accepted, its matrix starts with 'É' and has no 'Z'
MatrixWithoutZ ==
    (pc = "encrypted" /\ key.s = <<233>>) =>
        /\ KeyAccepted
        /\ PlayfairCipher_create_matrix(key.s)[1] = <<201, 65, 66, 67, 68>>
        /\ PlayfairCipher_create_matrix(key.s)[5] = <<85, 86, 87, 88, 89>>
        /\ (text.s = <<90>> <=> ct = Raise("ValueError"))

---------------------------------------------------------------------------
(* Additive against Caesar, under SpecShift *)

\* the other one of the two shift ciphers
OtherShiftCipher == IF cipher = "CaesarCipher" THEN "AdditiveCipher" ELSE "CaesarCipher"

\* C29: for every text and every integer key k, AdditiveCipher.encrypt(text, k)
\* is CaesarCipher.encrypt(text, k) and AdditiveCipher.decrypt(text, k) is
\* CaesarCipher.decrypt(text, k).
C29_AdditiveIsCaesar ==
    (cipher \in {"CaesarCipher", "AdditiveCipher"} /\ key.t = "int") =>
        /\ pc = "encrypted" => ct = encrypt(OtherShiftCipher, text, key)
        /\ pc = "decrypted_text" => pt = decrypt(OtherShiftCipher, text, key)

\* the two agree on the texts without a lower-case letter, and on any text
\* once the result of Additive is upper-cased
AdditiveIsCaesarInUpperCase ==
    (cipher = "AdditiveCipher" /\ key.t = "int") =>
        /\ pc = "encrypted" =>
              /\ ct.kind = "return"
              /\ StrUpper(ct.val) = CaesarCipher_encrypt(text, key).val
              /\ IsUpperText(text.s) => ct = CaesarCipher_encrypt(text, key)
        /\ pc = "decrypted_text" =>
              /\ pt.kind = "return"
              /\ StrUpper(pt.val) = CaesarCipher_decrypt(text, key).val
              /\ IsUpperText(text.s) => pt = CaesarCipher_decrypt(text, key)

---------------------------------------------------------------------------
(* The digraphs of _prepare_text, under SpecPlayfair *)

\* the digraphs that encrypt has taken through the matrix
PreparedDigraphs == PlayfairCipher_prepare_text(text.s)

\* C30: for every text, every digraph of _prepare_text has two different
\* letters, so that encrypt never transforms a pair of identical letters, and
\* each letter of the text is in exactly one digraph, in the original order.
C30_DigraphsOfDifferentLetters ==
    (cipher = "PlayfairCipher" /\ pc = "encrypted") =>
        /\ \A i \in 1..Len(PreparedDigraphs) :
              PreparedDigraphs[i][1] # PreparedDigraphs[i][2]
        /\ IsFilled(PlayfairLetters(text.s), JoinDigraphs(PreparedDigraphs))

\* the only digraph of identical letters is 'XX', made of an 'X' of the text
\* and the filler; the letters of the text are each in one digraph, in order
DigraphsIdenticalOnlyXX ==
    (cipher = "PlayfairCipher" /\ pc = "encrypted") =>
        /\ \A i \in 1..Len(PreparedDigraphs) :
              PreparedDigraphs[i][1] = PreparedDigraphs[i][2]
                  => PreparedDigraphs[i] = <<88, 88>>
        /\ IsFilled(PlayfairLetters(text.s), JoinDigraphs(PreparedDigraphs))

\* the text 'X' gives the one digraph 'XX', which encrypt under 'KEY' takes to 'ZZ'
PreparedXX ==
    (cipher = "PlayfairCipher" /\ pc = "encrypted" /\ text.s = <<88>>) =>
        /\ PreparedDigraphs = << <<88, 88>> >>
        /\ key.s = <<75, 69, 89>> => ct = Ret(<<90, 90>>)
===========================================================================
